---- MODULE Spec2Model ----
(***************************************************************************)
(* Allocation de stock : modele du domaine (Lot, Produit), des handlers,   *)
(* du Unit of Work et du Message Bus de src/allocation.                    *)
(*                                                                         *)
(* Trois specifications :                                                  *)
(*   SpecLot     : un Lot isole, sur lequel on appelle ses methodes ;      *)
(*   SpecProduit : un Produit isole (agregat), idem ;                      *)
(*   Spec        : le systeme complet, commandes soumises a                *)
(*                 MessageBus.handle.                                      *)
(***************************************************************************)
EXTENDS Integers, Sequences, FiniteSets, TLC

\* ------------------------------------------------------------------------
\* Bornes du modele
\* ------------------------------------------------------------------------
MaxQteLot == 2
MaxQteLigne == 2
MaxEta == 2
MaxAppels == 2
MaxCommandes == 4
MaxHandles == 1
MaxOperations == 7

Skus == {"A", "B"}
Commandes == {"o1", "o2"}
Refs == {"b1", "b2"}
QtesLot == 0..MaxQteLot
QtesLigne == 1..MaxQteLigne

\* eta : Optional[date] ; None est la sequence vide, date d est <<d>>
None == <<>>
Etas == {None} \cup {<<d>> : d \in 1..MaxEta}

\* ------------------------------------------------------------------------
\* Domaine : LigneDeCommande, Lot
\* ------------------------------------------------------------------------
LigneDeCommande(id_commande, sku, quantite) ==
    [id_commande |-> id_commande, sku |-> sku, quantite |-> quantite]

Lignes == {LigneDeCommande(o, s, q) : o \in Commandes, s \in Skus, q \in QtesLigne}

LigneNulle == LigneDeCommande("", "", 0)

Lot(ref, sku, quantite, eta) ==
    [reference |-> ref, sku |-> sku, eta |-> eta,
     quantite_achetee |-> quantite, allocations |-> {}]

RECURSIVE Somme(_)
Somme(S) ==
    IF S = {} THEN 0
    ELSE LET l == CHOOSE x \in S : TRUE IN l.quantite + Somme(S \ {l})

quantite_allouee(self) == Somme(self.allocations)

quantite_disponible(self) == self.quantite_achetee - quantite_allouee(self)

\* variante fautive : comparaison stricte
peut_allouer_strict(self, ligne) ==
    self.sku = ligne.sku /\ quantite_disponible(self) > ligne.quantite

peut_allouer(self, ligne) ==
    self.sku = ligne.sku /\ quantite_disponible(self) >= ligne.quantite

\* variante fautive : allocations tenues dans une liste, une ligne repetee
\* compte deux fois dans la quantite allouee
Lot_allouer_liste(self, ligne) ==
    IF peut_allouer(self, ligne)
    THEN [self EXCEPT !.allocations = @ \cup {ligne},
                      !.quantite_achetee = IF ligne \in self.allocations
                                           THEN @ - ligne.quantite ELSE @]
    ELSE self
\* variante fautive : la quantite achetee est aussi decrementee
Lot_allouer_decompte(self, ligne) ==
    IF peut_allouer(self, ligne)
    THEN [self EXCEPT !.allocations = @ \cup {ligne},
                      !.quantite_achetee = @ - ligne.quantite]
    ELSE self

Lot_allouer(self, ligne) ==
    IF peut_allouer(self, ligne)
    THEN [self EXCEPT !.allocations = @ \cup {ligne}]
    ELSE self

\* variante fautive : vide le lot
Lot_desallouer_tout(self, ligne) ==
    IF ligne \in self.allocations
    THEN [self EXCEPT !.allocations = {}]
    ELSE self

Lot_desallouer(self, ligne) ==
    IF ligne \in self.allocations
    THEN [self EXCEPT !.allocations = @ \ {ligne}]
    ELSE self

\* set.pop() : retire un element arbitraire ; l'ensemble des issues possibles.
\* Sur un ensemble vide : KeyError.
Lot_desallouer_une(self) ==
    IF self.allocations = {}
    THEN {[lot |-> self, ligne |-> LigneNulle, erreur |-> "KeyError"]}
    ELSE {[lot |-> [self EXCEPT !.allocations = @ \ {l}], ligne |-> l, erreur |-> ""]
            : l \in self.allocations}

Lot__gt__(self, other) ==
    IF self.eta = None THEN FALSE
    ELSE IF other.eta = None THEN TRUE
    ELSE self.eta[1] > other.eta[1]

\* ------------------------------------------------------------------------
\* Domaine : events, Produit
\* ------------------------------------------------------------------------
Alloue(id_commande, sku, quantite, ref_lot) ==
    [type |-> "Alloue", id_commande |-> id_commande, sku |-> sku,
     quantite |-> quantite, ref_lot |-> ref_lot]

Desalloue(id_commande, sku, quantite) ==
    [type |-> "Desalloue", id_commande |-> id_commande, sku |-> sku,
     quantite |-> quantite]

RuptureDeStock(sku) == [type |-> "RuptureDeStock", sku |-> sku]

Produit(sku, lots, numero_version) ==
    [sku |-> sku, lots |-> lots, numero_version |-> numero_version,
     evenements |-> <<>>]

\* a < b en Python : Lot ne definit que __gt__, l'operateur reflechi b.__gt__(a)
\* est donc utilise par sorted()
Lot__lt__(a, b) == Lot__gt__(b, a)

\* variante fautive : tri instable, un lot ex aequo passe devant ceux deja places
RECURSIVE Inserer_avant_egaux(_, _, _)
Inserer_avant_egaux(lots, s, i) ==
    IF s = <<>> THEN <<i>>
    ELSE IF ~Lot__lt__(lots[Head(s)], lots[i]) THEN <<i>> \o s
    ELSE <<Head(s)>> \o Inserer_avant_egaux(lots, Tail(s), i)

\* insertion de l'indice i dans la suite triee s, apres les lots qui ne sont pas
\* plus grands que lui (sorted() de Python est stable)
RECURSIVE Inserer(_, _, _)
Inserer(lots, s, i) ==
    IF s = <<>> THEN <<i>>
    ELSE IF Lot__lt__(lots[i], lots[Head(s)]) THEN <<i>> \o s
    ELSE <<Head(s)>> \o Inserer(lots, Tail(s), i)

RECURSIVE TriStable(_, _)
TriStable(lots, n) ==
    IF n = 0 THEN <<>> ELSE Inserer(lots, TriStable(lots, n - 1), n)

\* variante fautive : la liste n'est pas triee
sorted_sans_tri(lots) == [i \in 1..Len(lots) |-> i]

\* sorted(self.lots) : tri stable ; rend les indices des lots dans l'ordre trie
sorted(lots) == TriStable(lots, Len(lots))

\* next(l for l in sorted(self.lots) if l.peut_allouer(ligne)) :
\* indice du lot choisi, 0 pour StopIteration
ChoisirLot(self, ligne) ==
    LET ordre == sorted(self.lots)
        K == {k \in 1..Len(ordre) : peut_allouer(self.lots[ordre[k]], ligne)}
    IN IF K = {} THEN 0
       ELSE ordre[CHOOSE k \in K : \A k2 \in K : k <= k2]

\* variante fautive : la rupture de stock est levee comme exception
Produit_allouer_exception(self, ligne) ==
    LET i == ChoisirLot(self, ligne) IN
    IF i = 0
    THEN [produit |-> self, ret |-> "", erreur |-> "RuptureDeStock"]
    ELSE [produit |-> [self EXCEPT
                         !.lots[i] = Lot_allouer(@, ligne),
                         !.numero_version = @ + 1,
                         !.evenements = Append(@, Alloue(ligne.id_commande, ligne.sku,
                                                       ligne.quantite,
                                                       self.lots[i].reference))],
          ret |-> self.lots[i].reference, erreur |-> ""]
\* variante fautive : l'event porte la reference du premier lot de la liste
Produit_allouer_ref(self, ligne) ==
    LET i == ChoisirLot(self, ligne) IN
    IF i = 0
    THEN [produit |-> [self EXCEPT !.evenements = Append(@, RuptureDeStock(ligne.sku))],
          ret |-> "", erreur |-> ""]
    ELSE [produit |-> [self EXCEPT
                         !.lots[i] = Lot_allouer(@, ligne),
                         !.numero_version = @ + 1,
                         !.evenements = Append(@, Alloue(ligne.id_commande, ligne.sku,
                                                       ligne.quantite,
                                                       self.lots[1].reference))],
          ret |-> self.lots[i].reference, erreur |-> ""]
\* variante fautive : le numero de version est incremente avant le try
Produit_allouer_version(self, ligne) ==
    LET i == ChoisirLot(self, ligne) IN
    IF i = 0
    THEN [produit |-> [self EXCEPT !.numero_version = @ + 1,
                                   !.evenements = Append(@, RuptureDeStock(ligne.sku))],
          ret |-> "", erreur |-> ""]
    ELSE [produit |-> [self EXCEPT
                         !.lots[i] = Lot_allouer(@, ligne),
                         !.numero_version = @ + 1,
                         !.evenements = Append(@, Alloue(ligne.id_commande, ligne.sku,
                                                       ligne.quantite,
                                                       self.lots[i].reference))],
          ret |-> self.lots[i].reference, erreur |-> ""]

\* Produit.allouer : [produit apres, valeur rendue, exception levee]
Produit_allouer(self, ligne) ==
    LET i == ChoisirLot(self, ligne) IN
    IF i = 0
    THEN [produit |-> [self EXCEPT !.evenements = Append(@, RuptureDeStock(ligne.sku))],
          ret |-> "", erreur |-> ""]
    ELSE [produit |-> [self EXCEPT
                         !.lots[i] = Lot_allouer(@, ligne),
                         !.numero_version = @ + 1,
                         !.evenements = Append(@, Alloue(ligne.id_commande, ligne.sku,
                                                       ligne.quantite,
                                                       self.lots[i].reference))],
          ret |-> self.lots[i].reference, erreur |-> ""]

\* variante fautive : if au lieu de while, une seule ligne est desallouee
BoucleDesallocation_une_fois(l, evts) ==
    IF quantite_disponible(l) >= 0
    THEN {[lot |-> l, evenements |-> evts, erreur |-> ""]}
    ELSE {[lot |-> r.lot,
           evenements |-> IF r.erreur # "" THEN evts
                          ELSE Append(evts, Desalloue(r.ligne.id_commande, r.ligne.sku,
                                                      r.ligne.quantite)),
           erreur |-> r.erreur]
            : r \in Lot_desallouer_une(l)}

\* variante fautive : while lot.quantite_disponible <= 0
RECURSIVE BoucleDesallocation_large(_, _)
BoucleDesallocation_large(l, evts) ==
    IF quantite_disponible(l) > 0
    THEN {[lot |-> l, evenements |-> evts, erreur |-> ""]}
    ELSE UNION {IF r.erreur # ""
                THEN {[lot |-> r.lot, evenements |-> evts, erreur |-> r.erreur]}
                ELSE BoucleDesallocation_large(r.lot,
                        Append(evts, Desalloue(r.ligne.id_commande, r.ligne.sku,
                                               r.ligne.quantite)))
                : r \in Lot_desallouer_une(l)}

\* while lot.quantite_disponible < 0 : ligne = lot.desallouer_une() ; append Desalloue
\* ensemble des issues possibles [lot, evenements emis, erreur]
RECURSIVE BoucleDesallocation(_, _)
BoucleDesallocation(l, evts) ==
    IF quantite_disponible(l) >= 0
    THEN {[lot |-> l, evenements |-> evts, erreur |-> ""]}
    ELSE UNION {IF r.erreur # ""
                THEN {[lot |-> r.lot, evenements |-> evts, erreur |-> r.erreur]}
                ELSE BoucleDesallocation(r.lot,
                        Append(evts, Desalloue(r.ligne.id_commande, r.ligne.sku,
                                               r.ligne.quantite)))
                : r \in Lot_desallouer_une(l)}

\* next(l for l in self.lots if l.reference == ref) : indice, 0 pour StopIteration
TrouverLot(self, ref) ==
    LET I == {i \in 1..Len(self.lots) : self.lots[i].reference = ref}
    IN IF I = {} THEN 0 ELSE CHOOSE i \in I : \A j \in I : i <= j

\* variante fautive : les lignes sont retirees sans event Desalloue
Produit_modifier_quantite_lot_muet(self, ref, quantite) ==
    LET i == TrouverLot(self, ref) IN
    IF i = 0 THEN {[produit |-> self, erreur |-> "StopIteration"]}
    ELSE {[produit |-> [self EXCEPT !.lots[i] = r.lot], erreur |-> r.erreur]
            : r \in BoucleDesallocation(
                        [self.lots[i] EXCEPT !.quantite_achetee = quantite], <<>>)}

\* Produit.modifier_quantite_lot : ensemble des issues [produit, erreur]
Produit_modifier_quantite_lot(self, ref, quantite) ==
    LET i == TrouverLot(self, ref) IN
    IF i = 0 THEN {[produit |-> self, erreur |-> "StopIteration"]}
    ELSE {[produit |-> [self EXCEPT !.lots[i] = r.lot,
                                    !.evenements = @ \o r.evenements],
           erreur |-> r.erreur]
            : r \in BoucleDesallocation(
                        [self.lots[i] EXCEPT !.quantite_achetee = quantite], <<>>)}

\* ------------------------------------------------------------------------
\* Variables
\* ------------------------------------------------------------------------
VARIABLES
    lot,        \* SpecLot : le Lot sous test
    appel,      \* SpecLot : dernier appel de methode sur lot (historique)
    produit,    \* SpecProduit : le Produit sous test
    appelP,     \* SpecProduit : dernier appel de methode sur produit (historique)
    uow,        \* Spec : implementation du Unit of Work ("SqlAlchemy" ou "Fake")
    depot,      \* Spec : les Produit du repository, dans l'ordre de leur ajout
    seen,       \* Spec : uow.produits.seen (indices dans depot)
    queue,      \* Spec : MessageBus.queue
    results,    \* Spec : results de l'appel de handle en cours
    pc,         \* Spec : "idle", "boucle" (while self.queue), "event" (_handle_event)
    courant,    \* Spec : event en cours de dispatch
    h,          \* Spec : rang du prochain handler de courant
    issue,      \* Spec : issue du dernier appel de handle
    envoyees,   \* Spec : notifications envoyees
    vue,        \* Spec : lignes de allocations_view
    journal,    \* Spec : handlers invoques par l'appel de handle en cours (historique)
    debut,      \* Spec : etat au debut de l'appel de handle en cours (historique)
    nbCommandes, \* Spec : nombre d'appels de handle
    popped,     \* Spec : messages sortis de la queue par l'appel en cours (historique)
    enfiles,    \* Spec : messages entres dans la queue pendant l'appel (historique)
    base,       \* SpecUow : etat committe de la base (lignes de products et batches)
    portee,     \* SpecUow : "dehors" ou "dedans" (corps d'un with uow)
    hist        \* SpecUow : compteurs et derniere operation (historique)

varsLot == <<lot, appel>>
varsProduit == <<produit, appelP>>
varsBus == <<uow, depot, seen, queue, results, pc, courant, h, issue, envoyees, vue,
             journal, debut, nbCommandes, popped, enfiles>>
varsUow == <<base, portee, hist>>
vars == <<lot, appel, produit, appelP, uow, depot, seen, queue, results, pc, courant, h,
          issue, envoyees, vue, journal, debut, nbCommandes, popped, enfiles, base,
          portee, hist>>

\* ------------------------------------------------------------------------
\* SpecLot : methodes de Lot appelees sur un lot isole
\* ------------------------------------------------------------------------
AppelLot(op, ligne, avant, ok, rendue, erreur, prec) ==
    [op |-> op, ligne |-> ligne, avant |-> avant, ok |-> ok,
     rendue |-> rendue, erreur |-> erreur, prec |-> prec]

Prec(a) == [op |-> a.op, ligne |-> a.ligne, avant |-> a.avant]

LotInitial == Lot("b1", "A", 0, None)

AppelInitial ==
    AppelLot("init", LigneNulle, LotInitial, FALSE, LigneNulle, "",
             [op |-> "init", ligne |-> LigneNulle, avant |-> LotInitial])

\* references des lots du produit sous test, une par position
RefsProduit == <<"b1", "b2">>

ProduitInitial == Produit("A", <<>>, 0)

AppelProduit(op, ligne, ref, quantite, avant, ret, erreur, n) ==
    [op |-> op, ligne |-> ligne, ref |-> ref, quantite |-> quantite,
     avant |-> avant, ret |-> ret, erreur |-> erreur, n |-> n]

AppelPInitial == AppelProduit("init", LigneNulle, "", 0, ProduitInitial, "", "", 0)

IssueAucune == [type |-> "aucune", erreur |-> "", results |-> <<>>]

MessageNul == [type |-> ""]

Debut(message, d, v, e) == [message |-> message, depot |-> d, vue |-> v, envoyees |-> e]

OperationAucune == [op |-> "", retour |-> 0, avant |-> <<>>, seen |-> {}, events |-> <<>>]

HistInitial ==
    [n |-> 0, sorties |-> 0, rollbacks |-> 0, commits |-> 0, mode |-> "",
     baseEntree |-> <<>>, baseCommit |-> <<>>, attendus |-> {}, nbEmis |-> 0,
     nbRecoltes |-> 0, derniere |-> OperationAucune]

\* Unit of Work construit, aucun with uow encore ouvert, base vide
UowInitial ==
    /\ base = <<>>
    /\ portee = "dehors"
    /\ hist = HistInitial

\* etat du bus apres bootstrap : depot vide, queue vide
BusInitial(u) ==
    /\ uow = u
    /\ depot = <<>>
    /\ seen = {}
    /\ queue = <<>>
    /\ results = <<>>
    /\ pc = "idle"
    /\ courant = MessageNul
    /\ h = 0
    /\ issue = IssueAucune
    /\ envoyees = <<>>
    /\ vue = <<>>
    /\ journal = <<>>
    /\ debut = Debut(MessageNul, <<>>, <<>>, <<>>)
    /\ nbCommandes = 0
    /\ popped = <<>>
    /\ enfiles = <<>>

InitLot ==
    /\ \E s \in Skus, q \in QtesLot : lot = Lot("b1", s, q, None)
    /\ appel = AppelLot("init", LigneNulle, lot, FALSE, LigneNulle, "",
                        [op |-> "init", ligne |-> LigneNulle, avant |-> lot])
    /\ produit = ProduitInitial
    /\ appelP = AppelPInitial
    /\ BusInitial("Fake")
    /\ UowInitial

AppelPeutAllouer ==
    \E ligne \in Lignes :
        /\ lot' = lot
        /\ appel' = AppelLot("peut_allouer", ligne, lot, peut_allouer(lot, ligne),
                             LigneNulle, "", Prec(appel))
        /\ UNCHANGED <<varsProduit, varsBus, varsUow>>

AppelAllouer ==
    \E ligne \in Lignes :
        /\ lot' = Lot_allouer(lot, ligne)
        /\ appel' = AppelLot("allouer", ligne, lot, FALSE, LigneNulle, "", Prec(appel))
        /\ UNCHANGED <<varsProduit, varsBus, varsUow>>

AppelDesallouer ==
    \E ligne \in Lignes :
        /\ lot' = Lot_desallouer(lot, ligne)
        /\ appel' = AppelLot("desallouer", ligne, lot, FALSE, LigneNulle, "", Prec(appel))
        /\ UNCHANGED <<varsProduit, varsBus, varsUow>>

AppelDesallouerUne ==
    \E r \in Lot_desallouer_une(lot) :
        /\ lot' = r.lot
        /\ appel' = AppelLot("desallouer_une", LigneNulle, lot, FALSE, r.ligne,
                             r.erreur, Prec(appel))
        /\ UNCHANGED <<varsProduit, varsBus, varsUow>>

NextLot ==
    \/ AppelPeutAllouer
    \/ AppelAllouer
    \/ AppelDesallouer
    \/ AppelDesallouerUne

SpecLot == InitLot /\ [][NextLot]_vars

\* ------------------------------------------------------------------------
\* SpecProduit : methodes de Produit appelees sur un agregat isole
\* ------------------------------------------------------------------------
\* Produit(sku, lots=[...]) : jusqu'a MaxLots lots neufs du sku du produit
LotsInitiaux ==
    UNION {[1..n -> QtesLot \X Etas] : n \in 0..Len(RefsProduit)}

InitProduit ==
    /\ \E f \in LotsInitiaux :
         produit = Produit("A", [i \in DOMAIN f |-> Lot(RefsProduit[i], "A", f[i][1], f[i][2])], 0)
    /\ appelP = AppelProduit("init", LigneNulle, "", 0, produit, "", "", 0)
    /\ lot = LotInitial
    /\ appel = AppelInitial
    /\ BusInitial("Fake")
    /\ UowInitial

AppelProduitAllouer ==
    \E ligne \in Lignes :
        /\ appelP.n < MaxAppels
        /\ LET r == Produit_allouer(produit, ligne) IN
            /\ produit' = r.produit
            /\ appelP' = AppelProduit("allouer", ligne, "", 0, produit, r.ret, r.erreur,
                                      appelP.n + 1)
        /\ UNCHANGED <<varsLot, varsBus, varsUow>>

AppelProduitModifier ==
    \E i \in 1..Len(RefsProduit), quantite \in QtesLot :
        /\ appelP.n < MaxAppels
        /\ \E r \in Produit_modifier_quantite_lot(produit, RefsProduit[i], quantite) :
            /\ produit' = r.produit
            /\ appelP' = AppelProduit("modifier_quantite_lot", LigneNulle,
                                      RefsProduit[i], quantite, produit, "", r.erreur,
                                      appelP.n + 1)
        /\ UNCHANGED <<varsLot, varsBus, varsUow>>

NextProduit ==
    \/ AppelProduitAllouer
    \/ AppelProduitModifier

SpecProduit == InitProduit /\ [][NextProduit]_vars

\* ------------------------------------------------------------------------
\* Commands, repository, Unit of Work, handlers
\* ------------------------------------------------------------------------
CreerLot(ref, sku, quantite, eta) ==
    [type |-> "CreerLot", ref |-> ref, sku |-> sku, quantite |-> quantite, eta |-> eta]

Allouer(id_commande, sku, quantite) ==
    [type |-> "Allouer", id_commande |-> id_commande, sku |-> sku,
     quantite |-> quantite]

ModifierQuantiteLot(ref, quantite) ==
    [type |-> "ModifierQuantiteLot", ref |-> ref, quantite |-> quantite]

TypesCommand == {"CreerLot", "Allouer", "ModifierQuantiteLot"}
TypesEvent == {"Alloue", "Desalloue", "RuptureDeStock"}

\* bootstrap.EVENT_HANDLERS : handlers de chaque type d'event, dans l'ordre
EVENT_HANDLERS(type) ==
    CASE type = "Alloue" -> <<"publier_evenement_allocation", "ajouter_allocation_vue">>
      [] type = "Desalloue" -> <<"reallouer", "supprimer_allocation_vue">>
      [] type = "RuptureDeStock" -> <<"envoyer_notification_rupture_stock">>
      [] OTHER -> <<>>

\* bootstrap.COMMAND_HANDLERS
COMMAND_HANDLERS(type) ==
    CASE type = "CreerLot" -> "ajouter_lot"
      [] type = "Allouer" -> "allouer"
      [] type = "ModifierQuantiteLot" -> "modifier_quantite_lot"
      [] OTHER -> ""

\* with uow : SqlAlchemyUnitOfWork.__enter__ construit un repository neuf (seen
\* vide) ; FakeUnitOfWork garde le meme repository
Entrer(u, sn) == IF u = "SqlAlchemy" THEN {} ELSE sn

\* with uow : les Produit d'une session neuve sont charges de la base, et le
\* listener "load" leur donne une liste d'events vide ; le FakeRepository garde
\* les memes objets
Recharger(u, d) ==
    IF u = "SqlAlchemy" THEN [i \in 1..Len(d) |-> [d[i] EXCEPT !.evenements = <<>>]]
    ELSE d

\* marque d'historique : event emis dans un with sorti sans commit
Perime(event) == [perime |-> TRUE] @@ event

EstPerime(message) == "perime" \in DOMAIN message

\* la liste d'events d'un agregat apres un with sorti sans commit : les events
\* ajoutes pendant ce with y restent, et portent la marque
EventsPerimes(avant, apres) ==
    avant \o [k \in 1..(Len(apres) - Len(avant)) |-> Perime(apres[Len(avant) + k])]

\* repository._get(sku) : les produits de ce sku (le premier trouve est rendu)
Repo_get(d, sku) == {i \in 1..Len(d) : d[i].sku = sku}

\* variante fautive : un produit qui a des lots, quelle que soit leur reference
Repo_get_par_ref_lot_sans_filtre(d, ref) == {i \in 1..Len(d) : d[i].lots # <<>>}

\* repository._get_par_ref_lot(ref) : les produits qui ont un lot de cette reference
Repo_get_par_ref_lot(d, ref) ==
    {i \in 1..Len(d) : \E k \in 1..Len(d[i].lots) : d[i].lots[k].reference = ref}

\* issue d'un handler : etat apres, valeur rendue, exception levee ("" : aucune)
\* commits : nombre d'appels de uow.commit() termines pendant le handler
Issue(d, sn, v, e, ret, erreur) ==
    [depot |-> d, seen |-> sn, vue |-> v, envoyees |-> e, ret |-> ret,
     erreur |-> erreur, commits |-> 0]

\* uow.commit() en fin de corps du with : self._commit()
uow_commit(r) == [r EXCEPT !.commits = @ + 1]

\* variante fautive : un Produit neuf a chaque CreerLot, sans consulter le repository
handler_ajouter_lot_toujours_nouveau(cmd, d, sn, u, v, e) ==
    {uow_commit(Issue(Append(d, Produit(cmd.sku,
                                        <<Lot(cmd.ref, cmd.sku, cmd.quantite, cmd.eta)>>,
                                        0)),
                      Entrer(u, sn) \cup {Len(d) + 1}, v, e, "None", ""))}

\* with uow : get(sku) ; Produit cree et ajoute s'il est absent ; lots.append ;
\* commit
handler_ajouter_lot(cmd, d, sn, u, v, e) ==
    LET sn0 == Entrer(u, sn)
        d0 == Recharger(u, d)
        I == Repo_get(d0, cmd.sku)
        nouveau == Lot(cmd.ref, cmd.sku, cmd.quantite, cmd.eta)
    IN IF I = {}
       THEN {uow_commit(Issue(Append(d0, Produit(cmd.sku, <<nouveau>>, 0)),
                              sn0 \cup {Len(d0) + 1}, v, e, "None", ""))}
       ELSE {uow_commit(Issue([d0 EXCEPT ![i].lots = Append(@, nouveau)],
                              sn0 \cup {i}, v, e, "None", "")) : i \in I}

\* variante fautive : sku inconnu traite comme une rupture de stock
handler_allouer_sans_exception(cmd, d, sn, u, v, e) ==
    LET sn0 == Entrer(u, sn)
        I == Repo_get(d, cmd.sku)
        ligne == LigneDeCommande(cmd.id_commande, cmd.sku, cmd.quantite)
    IN IF I = {}
       THEN {Issue(d, sn0, v, e, "", "")}
       ELSE {LET r == Produit_allouer(d[i], ligne)
             IN Issue([d EXCEPT ![i] = r.produit], sn0 \cup {i}, v, e, r.ret, r.erreur)
               : i \in I}

handler_allouer(cmd, d, sn, u, v, e) ==
    LET sn0 == Entrer(u, sn)
        d0 == Recharger(u, d)
        I == Repo_get(d0, cmd.sku)
        ligne == LigneDeCommande(cmd.id_commande, cmd.sku, cmd.quantite)
    IN IF I = {}
       THEN {Issue(d0, sn0, v, e, "", "SkuInconnu")}
       ELSE {LET r == Produit_allouer(d0[i], ligne)
                 apres == Issue([d0 EXCEPT ![i] = r.produit], sn0 \cup {i}, v, e, r.ret,
                                r.erreur)
             IN IF r.erreur = "" THEN uow_commit(apres) ELSE apres
               : i \in I}

\* une exception levee apres la mutation : la session SQL est annulee (les
\* events deja emis restent sur l'objet), les objets en memoire du
\* FakeRepository restent modifies
handler_modifier_quantite_lot(cmd, d, sn, u, v, e) ==
    LET sn0 == Entrer(u, sn)
        d0 == Recharger(u, d)
        I == Repo_get_par_ref_lot(d0, cmd.ref)
    IN IF I = {}
       THEN {Issue(d0, sn0, v, e, "None", "SkuInconnu")}
       ELSE UNION {{LET restes == EventsPerimes(d0[i].evenements, r.produit.evenements)
                         apres ==
                            Issue(IF r.erreur = "" THEN [d0 EXCEPT ![i] = r.produit]
                                  ELSE IF u = "Fake"
                                  THEN [d0 EXCEPT ![i] = [r.produit EXCEPT
                                                            !.evenements = restes]]
                                  ELSE [d0 EXCEPT ![i].evenements = restes],
                                  sn0 \cup {i}, v, e, "None", r.erreur)
                     IN IF r.erreur = "" THEN uow_commit(apres) ELSE apres
                      : r \in Produit_modifier_quantite_lot(d0[i], cmd.ref, cmd.quantite)}
                   : i \in I}

handler_publier_evenement_allocation(event, d, sn, u, v, e) ==
    {Issue(d, sn, v, e, "None", "")}

\* FakeUnitOfWork n'a pas d'attribut session : AttributeError
handler_ajouter_allocation_vue(event, d, sn, u, v, e) ==
    IF u = "Fake"
    THEN {Issue(d, sn, v, e, "None", "AttributeError")}
    ELSE {uow_commit(Issue(Recharger(u, d), Entrer(u, sn),
                           Append(v, [id_commande |-> event.id_commande,
                                      sku |-> event.sku, ref_lot |-> event.ref_lot]),
                           e, "None", ""))}

\* variante fautive : le DELETE n'est pas execute, la vue garde ses rangees
handler_supprimer_allocation_vue_sans_delete(event, d, sn, u, v, e) ==
    IF u = "Fake"
    THEN {Issue(d, sn, v, e, "None", "AttributeError")}
    ELSE {uow_commit(Issue(Recharger(u, d), Entrer(u, sn), v, e, "None", ""))}

\* DELETE FROM allocations_view WHERE id_commande = ... AND sku = ... ; commit
handler_supprimer_allocation_vue(event, d, sn, u, v, e) ==
    IF u = "Fake"
    THEN {Issue(d, sn, v, e, "None", "AttributeError")}
    ELSE LET Garder(r) == ~(r.id_commande = event.id_commande /\ r.sku = event.sku)
         IN {uow_commit(Issue(Recharger(u, d), Entrer(u, sn), SelectSeq(v, Garder), e,
                              "None", ""))}

\* variante fautive : reallouer cherche le produit mais n'alloue pas la ligne
handler_reallouer_sans_allocation(event, d, sn, u, v, e) ==
    LET sn0 == Entrer(u, sn)
        d0 == Recharger(u, d)
        I == Repo_get(d0, event.sku)
    IN IF I = {}
       THEN {Issue(d0, sn0, v, e, "", "SkuInconnu")}
       ELSE {uow_commit(Issue([d0 EXCEPT ![i].evenements =
                                             Append(@, RuptureDeStock(event.sku))],
                              sn0 \cup {i}, v, e, "", "")) : i \in I}

\* reallouer : appelle le handler allouer avec une command Allouer construite
\* depuis l'event
handler_reallouer(event, d, sn, u, v, e) ==
    handler_allouer(Allouer(event.id_commande, event.sku, event.quantite),
                    d, sn, u, v, e)

\* variante fautive : le handler n'appelle pas notifications.send
handler_envoyer_notification_muet(event, d, sn, u, v, e) ==
    {Issue(d, sn, v, e, "None", "")}

handler_envoyer_notification_rupture_stock(event, d, sn, u, v, e) ==
    {Issue(d, sn, v,
           Append(e, [destination |-> "stock@example.com", sku |-> event.sku]),
           "None", "")}

\* variante fautive : les events sont rendus sans etre retires de l'agregat
RECURSIVE collect_new_events_sans_vider(_, _)
collect_new_events_sans_vider(d, sn) ==
    IF sn = {} THEN {[depot |-> d, events |-> <<>>]}
    ELSE UNION {{[depot |-> r.depot, events |-> d[i].evenements \o r.events]
                   : r \in collect_new_events_sans_vider(d, sn \ {i})}
                : i \in sn}

\* uow.collect_new_events() : vide les events des produits de seen, dans l'ordre de
\* parcours du set (arbitraire) ; ensemble des issues [depot, events]
RECURSIVE collect_new_events(_, _)
collect_new_events(d, sn) ==
    IF sn = {} THEN {[depot |-> d, events |-> <<>>]}
    ELSE UNION {{[depot |-> r.depot, events |-> d[i].evenements \o r.events]
                   : r \in collect_new_events([d EXCEPT ![i].evenements = <<>>],
                                              sn \ {i})}
                : i \in sn}

\* ------------------------------------------------------------------------
\* Spec : MessageBus.handle
\* ------------------------------------------------------------------------
Init ==
    /\ \E u \in {"SqlAlchemy", "Fake"} : BusInitial(u)
    /\ UowInitial
    /\ lot = LotInitial
    /\ appel = AppelInitial
    /\ produit = ProduitInitial
    /\ appelP = AppelPInitial

\* recoltes : les events recoltes par le bus juste apres le handler
Invocation(handler, message, ret, erreur, commits, recoltes) ==
    [handler |-> handler, message |-> message, ret |-> ret, erreur |-> erreur,
     commits |-> commits, recoltes |-> recoltes]

\* handle(message) : self.queue = [message] ; results = []
Handle(message) ==
    /\ pc = "idle"
    /\ nbCommandes < MaxCommandes
    /\ queue' = <<message>>
    /\ results' = <<>>
    /\ pc' = "boucle"
    /\ issue' = IssueAucune
    /\ journal' = <<>>
    /\ debut' = Debut(message, depot, vue, envoyees)
    /\ nbCommandes' = nbCommandes + 1
    /\ popped' = <<>>
    /\ enfiles' = <<message>>
    /\ UNCHANGED <<uow, depot, seen, courant, h, envoyees, vue>>
    /\ UNCHANGED <<varsLot, varsProduit, varsUow>>

\* commandes soumises : toutes les formes pour le sku "A" ; le sku "B" est
\* l'autre produit, avec une forme de lot et une forme de ligne. Les lots
\* crees par commande sont en stock (eta None) ; SpecProduit couvre les eta.
EntreesCreerLot ==
    {CreerLot(ref, "A", quantite, None) : ref \in Refs, quantite \in QtesLot}
    \cup {CreerLot(ref, "B", MaxQteLot, None) : ref \in Refs}

EntreesAllouer ==
    {Allouer(id, "A", quantite) : id \in Commandes, quantite \in QtesLigne}
    \cup {Allouer("o1", "B", 1)}

EntreesModifierQuantiteLot ==
    {ModifierQuantiteLot(ref, quantite) : ref \in Refs, quantite \in QtesLot}

HandleCreerLot == \E cmd \in EntreesCreerLot : Handle(cmd)

HandleAllouer == \E cmd \in EntreesAllouer : Handle(cmd)

HandleModifierQuantiteLot == \E cmd \in EntreesModifierQuantiteLot : Handle(cmd)

\* variante fautive : la valeur rendue par le handler n'est pas ajoutee a results
HandleCommand_sans_resultat(type, issues) ==
    /\ pc = "boucle"
    /\ queue # <<>>
    /\ Head(queue).type = type
    /\ \E r \in issues :
        /\ seen' = r.seen
        /\ vue' = r.vue
        /\ envoyees' = r.envoyees
        /\ IF r.erreur # ""
           THEN /\ depot' = r.depot
                /\ journal' = Append(journal,
                       Invocation(COMMAND_HANDLERS(type), Head(queue), r.ret, r.erreur, r.commits,
                                  <<>>))
                /\ queue' = Tail(queue)
                /\ enfiles' = enfiles
                /\ pc' = "idle"
                /\ issue' = [type |-> "exception", erreur |-> r.erreur,
                             results |-> <<>>]
           ELSE \E c \in collect_new_events(r.depot, r.seen) :
                /\ depot' = c.depot
                /\ journal' = Append(journal,
                       Invocation(COMMAND_HANDLERS(type), Head(queue), r.ret, r.erreur, r.commits,
                                  c.events))
                /\ queue' = Tail(queue) \o c.events
                /\ enfiles' = enfiles \o c.events
                /\ pc' = "boucle"
                /\ issue' = issue
    /\ results' = results
    /\ popped' = Append(popped, Head(queue))
    /\ UNCHANGED <<uow, courant, h, debut, nbCommandes>>
    /\ UNCHANGED <<varsLot, varsProduit, varsUow>>

\* variante fautive : l'exception d'un handler de command est journalisee et la
\* boucle continue, comme pour un event
HandleCommand_tolerant(type, issues) ==
    /\ pc = "boucle"
    /\ queue # <<>>
    /\ Head(queue).type = type
    /\ \E r \in issues :
        /\ seen' = r.seen
        /\ vue' = r.vue
        /\ envoyees' = r.envoyees
        /\ IF r.erreur # ""
           THEN /\ depot' = r.depot
                /\ journal' = Append(journal,
                       Invocation(COMMAND_HANDLERS(type), Head(queue), r.ret, r.erreur, r.commits,
                                  <<>>))
                /\ queue' = Tail(queue)
                /\ enfiles' = enfiles
                /\ results' = results
           ELSE \E c \in collect_new_events(r.depot, r.seen) :
                /\ depot' = c.depot
                /\ journal' = Append(journal,
                       Invocation(COMMAND_HANDLERS(type), Head(queue), r.ret, r.erreur, r.commits,
                                  c.events))
                /\ queue' = Tail(queue) \o c.events
                /\ enfiles' = enfiles \o c.events
                /\ results' = Append(results, r.ret)
    /\ pc' = "boucle"
    /\ issue' = issue
    /\ popped' = Append(popped, Head(queue))
    /\ UNCHANGED <<uow, courant, h, debut, nbCommandes>>
    /\ UNCHANGED <<varsLot, varsProduit, varsUow>>

\* _handle_command : le handler, puis queue.extend(collect_new_events()) ;
\* une exception du handler sort de handle
HandleCommand(type, issues) ==
    /\ pc = "boucle"
    /\ queue # <<>>
    /\ Head(queue).type = type
    /\ \E r \in issues :
        /\ seen' = r.seen
        /\ vue' = r.vue
        /\ envoyees' = r.envoyees
        /\ IF r.erreur # ""
           THEN /\ depot' = r.depot
                /\ journal' = Append(journal,
                       Invocation(COMMAND_HANDLERS(type), Head(queue), r.ret, r.erreur, r.commits,
                                  <<>>))
                /\ queue' = Tail(queue)
                /\ enfiles' = enfiles
                /\ results' = results
                /\ pc' = "idle"
                /\ issue' = [type |-> "exception", erreur |-> r.erreur,
                             results |-> <<>>]
           ELSE \E c \in collect_new_events(r.depot, r.seen) :
                /\ depot' = c.depot
                /\ journal' = Append(journal,
                       Invocation(COMMAND_HANDLERS(type), Head(queue), r.ret, r.erreur, r.commits,
                                  c.events))
                /\ queue' = Tail(queue) \o c.events
                /\ enfiles' = enfiles \o c.events
                /\ results' = Append(results, r.ret)
                /\ pc' = "boucle"
                /\ issue' = issue
    /\ popped' = Append(popped, Head(queue))
    /\ UNCHANGED <<uow, courant, h, debut, nbCommandes>>
    /\ UNCHANGED <<varsLot, varsProduit, varsUow>>

CommandCreerLot ==
    HandleCommand("CreerLot",
        IF queue # <<>> /\ Head(queue).type = "CreerLot"
        THEN handler_ajouter_lot(Head(queue), depot, seen, uow, vue, envoyees) ELSE {})

CommandAllouer ==
    HandleCommand("Allouer",
        IF queue # <<>> /\ Head(queue).type = "Allouer"
        THEN handler_allouer(Head(queue), depot, seen, uow, vue, envoyees) ELSE {})

CommandModifierQuantiteLot ==
    HandleCommand("ModifierQuantiteLot",
        IF queue # <<>> /\ Head(queue).type = "ModifierQuantiteLot"
        THEN handler_modifier_quantite_lot(Head(queue), depot, seen, uow, vue, envoyees)
        ELSE {})

\* message = self.queue.pop(0), un Event : entree dans _handle_event
PopEvent ==
    /\ pc = "boucle"
    /\ queue # <<>>
    /\ Head(queue).type \in TypesEvent
    /\ courant' = Head(queue)
    /\ queue' = Tail(queue)
    /\ h' = 1
    /\ pc' = "event"
    /\ popped' = Append(popped, Head(queue))
    /\ UNCHANGED <<uow, depot, seen, results, issue, envoyees, vue, journal, debut,
                   nbCommandes, enfiles>>
    /\ UNCHANGED <<varsLot, varsProduit, varsUow>>

\* variante fautive : les events recoltes passent en tete de la queue (cascade en
\* profondeur d'abord)
HandleEvent_en_tete(nom, issues) ==
    /\ pc = "event"
    /\ h <= Len(EVENT_HANDLERS(courant.type))
    /\ EVENT_HANDLERS(courant.type)[h] = nom
    /\ \E r \in issues :
        /\ seen' = r.seen
        /\ vue' = r.vue
        /\ envoyees' = r.envoyees
        /\ IF r.erreur # ""
           THEN /\ depot' = r.depot
                /\ journal' = Append(journal,
                       Invocation(nom, courant, r.ret, r.erreur, r.commits,
                                  <<>>))
                /\ queue' = queue
                /\ enfiles' = enfiles
           ELSE \E c \in collect_new_events(r.depot, r.seen) :
                /\ depot' = c.depot
                /\ journal' = Append(journal,
                       Invocation(nom, courant, r.ret, r.erreur, r.commits,
                                  c.events))
                /\ queue' = c.events \o queue
                /\ enfiles' = enfiles \o c.events
    /\ IF h = Len(EVENT_HANDLERS(courant.type))
       THEN /\ pc' = "boucle"
            /\ h' = 0
            /\ courant' = MessageNul
       ELSE /\ pc' = "event"
            /\ h' = h + 1
            /\ courant' = courant
    /\ UNCHANGED <<uow, results, issue, debut, nbCommandes, popped>>
    /\ UNCHANGED <<varsLot, varsProduit, varsUow>>

\* variante fautive : le try entoure toute la boucle for, l'exception d'un handler
\* fait abandonner les handlers suivants du meme event
HandleEvent_abandon(nom, issues) ==
    /\ pc = "event"
    /\ h <= Len(EVENT_HANDLERS(courant.type))
    /\ EVENT_HANDLERS(courant.type)[h] = nom
    /\ \E r \in issues :
        /\ seen' = r.seen
        /\ vue' = r.vue
        /\ envoyees' = r.envoyees
        /\ IF r.erreur # ""
           THEN /\ depot' = r.depot
                /\ journal' = Append(journal,
                       Invocation(nom, courant, r.ret, r.erreur, r.commits,
                                  <<>>))
                /\ queue' = queue
                /\ enfiles' = enfiles
           ELSE \E c \in collect_new_events(r.depot, r.seen) :
                /\ depot' = c.depot
                /\ journal' = Append(journal,
                       Invocation(nom, courant, r.ret, r.erreur, r.commits,
                                  c.events))
                /\ queue' = queue \o c.events
                /\ enfiles' = enfiles \o c.events
        /\ IF h = Len(EVENT_HANDLERS(courant.type)) \/ r.erreur # ""
           THEN /\ pc' = "boucle"
                /\ h' = 0
                /\ courant' = MessageNul
           ELSE /\ pc' = "event"
                /\ h' = h + 1
                /\ courant' = courant
    /\ UNCHANGED <<uow, results, issue, debut, nbCommandes, popped>>
    /\ UNCHANGED <<varsLot, varsProduit, varsUow>>

\* variante fautive : la valeur rendue par un handler d'event entre dans results
HandleEvent_avec_resultat(nom, issues) ==
    /\ pc = "event"
    /\ h <= Len(EVENT_HANDLERS(courant.type))
    /\ EVENT_HANDLERS(courant.type)[h] = nom
    /\ \E r \in issues :
        /\ seen' = r.seen
        /\ vue' = r.vue
        /\ envoyees' = r.envoyees
        /\ IF r.erreur # ""
           THEN /\ depot' = r.depot
                /\ journal' = Append(journal,
                       Invocation(nom, courant, r.ret, r.erreur, r.commits,
                                  <<>>))
                /\ queue' = queue
                /\ enfiles' = enfiles
                /\ results' = results
           ELSE \E c \in collect_new_events(r.depot, r.seen) :
                /\ depot' = c.depot
                /\ journal' = Append(journal,
                       Invocation(nom, courant, r.ret, r.erreur, r.commits,
                                  c.events))
                /\ queue' = queue \o c.events
                /\ enfiles' = enfiles \o c.events
                /\ results' = Append(results, r.ret)
    /\ IF h = Len(EVENT_HANDLERS(courant.type))
       THEN /\ pc' = "boucle"
            /\ h' = 0
            /\ courant' = MessageNul
       ELSE /\ pc' = "event"
            /\ h' = h + 1
            /\ courant' = courant
    /\ UNCHANGED <<uow, issue, debut, nbCommandes, popped>>
    /\ UNCHANGED <<varsLot, varsProduit, varsUow>>

\* variante fautive : la recolte a lieu aussi apres un handler qui a leve
HandleEvent_recolte_toujours(nom, issues) ==
    /\ pc = "event"
    /\ h <= Len(EVENT_HANDLERS(courant.type))
    /\ EVENT_HANDLERS(courant.type)[h] = nom
    /\ \E r \in issues :
        /\ seen' = r.seen
        /\ vue' = r.vue
        /\ envoyees' = r.envoyees
        /\ \E c \in collect_new_events(r.depot, r.seen) :
                /\ depot' = c.depot
                /\ journal' = Append(journal,
                       Invocation(nom, courant, r.ret, r.erreur, r.commits,
                                  c.events))
                /\ queue' = queue \o c.events
                /\ enfiles' = enfiles \o c.events
    /\ IF h = Len(EVENT_HANDLERS(courant.type))
       THEN /\ pc' = "boucle"
            /\ h' = 0
            /\ courant' = MessageNul
       ELSE /\ pc' = "event"
            /\ h' = h + 1
            /\ courant' = courant
    /\ UNCHANGED <<uow, results, issue, debut, nbCommandes, popped>>
    /\ UNCHANGED <<varsLot, varsProduit, varsUow>>

\* _handle_event, un tour de boucle : le handler de rang h, puis
\* queue.extend(collect_new_events()) ; une exception est journalisee et
\* le tour suivant commence
HandleEvent(nom, issues) ==
    /\ pc = "event"
    /\ h <= Len(EVENT_HANDLERS(courant.type))
    /\ EVENT_HANDLERS(courant.type)[h] = nom
    /\ \E r \in issues :
        /\ seen' = r.seen
        /\ vue' = r.vue
        /\ envoyees' = r.envoyees
        /\ IF r.erreur # ""
           THEN /\ depot' = r.depot
                /\ journal' = Append(journal,
                       Invocation(nom, courant, r.ret, r.erreur, r.commits,
                                  <<>>))
                /\ queue' = queue
                /\ enfiles' = enfiles
           ELSE \E c \in collect_new_events(r.depot, r.seen) :
                /\ depot' = c.depot
                /\ journal' = Append(journal,
                       Invocation(nom, courant, r.ret, r.erreur, r.commits,
                                  c.events))
                /\ queue' = queue \o c.events
                /\ enfiles' = enfiles \o c.events
    /\ IF h = Len(EVENT_HANDLERS(courant.type))
       THEN /\ pc' = "boucle"
            /\ h' = 0
            /\ courant' = MessageNul
       ELSE /\ pc' = "event"
            /\ h' = h + 1
            /\ courant' = courant
    /\ UNCHANGED <<uow, results, issue, debut, nbCommandes, popped>>
    /\ UNCHANGED <<varsLot, varsProduit, varsUow>>

EventPublier ==
    HandleEvent("publier_evenement_allocation",
        handler_publier_evenement_allocation(courant, depot, seen, uow, vue, envoyees))

EventAjouterVue ==
    HandleEvent("ajouter_allocation_vue",
        IF courant.type = "Alloue"
        THEN handler_ajouter_allocation_vue(courant, depot, seen, uow, vue, envoyees)
        ELSE {})

EventReallouer ==
    HandleEvent("reallouer",
        IF courant.type = "Desalloue"
        THEN handler_reallouer(courant, depot, seen, uow, vue, envoyees) ELSE {})

EventSupprimerVue ==
    HandleEvent("supprimer_allocation_vue",
        IF courant.type = "Desalloue"
        THEN handler_supprimer_allocation_vue(courant, depot, seen, uow, vue, envoyees)
        ELSE {})

EventNotification ==
    HandleEvent("envoyer_notification_rupture_stock",
        IF courant.type = "RuptureDeStock"
        THEN handler_envoyer_notification_rupture_stock(courant, depot, seen, uow, vue,
                                                        envoyees)
        ELSE {})

\* variante fautive : la boucle ne rend pas la main quand la queue est vide
Retour_sans_sortie ==
    /\ pc = "boucle"
    /\ queue = <<>>
    /\ UNCHANGED vars

\* while self.queue : termine ; return results
Retour ==
    /\ pc = "boucle"
    /\ queue = <<>>
    /\ pc' = "idle"
    /\ issue' = [type |-> "retour", erreur |-> "", results |-> results]
    /\ UNCHANGED <<uow, depot, seen, queue, results, courant, h, envoyees, vue, journal,
                   debut, nbCommandes, popped, enfiles>>
    /\ UNCHANGED <<varsLot, varsProduit, varsUow>>

Next ==
    \/ HandleCreerLot
    \/ HandleAllouer
    \/ HandleModifierQuantiteLot
    \/ CommandCreerLot
    \/ CommandAllouer
    \/ CommandModifierQuantiteLot
    \/ PopEvent
    \/ EventPublier
    \/ EventAjouterVue
    \/ EventReallouer
    \/ EventSupprimerVue
    \/ EventNotification
    \/ Retour

Spec == Init /\ [][Next]_vars

\* ------------------------------------------------------------------------
\* SpecDispatch : la boucle de MessageBus.handle, quelle que soit l'issue des
\* handlers. _call_handler rend la valeur du handler ou laisse passer son
\* exception (base de donnees, SMTP, attribut absent) ; les events emis pendant
\* un handler qui leve restent sur l'agregat jusqu'a la collecte suivante.
\* handle accepte une Command ou un Event comme premier message.
\* ------------------------------------------------------------------------
AgregatDispatch == Produit("A", <<>>, 0)

CommandesDispatch ==
    {CreerLot("b1", "A", 1, None), Allouer("o1", "A", 1), ModifierQuantiteLot("b1", 0)}

EventsDispatch ==
    {Alloue("o1", "A", 1, "b1"), Desalloue("o1", "A", 1), RuptureDeStock("A")}

NomsEventHandlers ==
    UNION {{EVENT_HANDLERS(t)[k] : k \in 1..Len(EVENT_HANDLERS(t))} : t \in TypesEvent}

\* events que le handler fait emettre par l'agregat (Produit.allouer : Alloue ou
\* RuptureDeStock ; Produit.modifier_quantite_lot : un Desalloue par ligne retiree)
Emissions(nom) ==
    IF nom \in {"allouer", "reallouer"}
    THEN {<<Alloue("o1", "A", 1, "b1")>>, <<RuptureDeStock("A")>>}
    ELSE IF nom = "modifier_quantite_lot"
    THEN {<<>>, <<Desalloue("o1", "A", 1)>>,
          <<Desalloue("o1", "A", 1), Desalloue("o2", "A", 1)>>}
    ELSE {<<>>}

IssuesDispatch(nom) ==
    {Issue([depot EXCEPT ![1].evenements = @ \o em], seen, vue, envoyees,
           IF nom = "allouer" /\ em[1].type = "Alloue" THEN em[1].ref_lot
           ELSE IF nom = "allouer" THEN "" ELSE "None",
           erreur)
       : em \in Emissions(nom), erreur \in {"", "Exception"}}

InitDispatch ==
    /\ uow = "Fake"
    /\ depot = <<AgregatDispatch>>
    /\ seen = {1}
    /\ queue = <<>>
    /\ results = <<>>
    /\ pc = "idle"
    /\ courant = MessageNul
    /\ h = 0
    /\ issue = IssueAucune
    /\ envoyees = <<>>
    /\ vue = <<>>
    /\ journal = <<>>
    /\ debut = Debut(MessageNul, <<>>, <<>>, <<>>)
    /\ nbCommandes = 0
    /\ popped = <<>>
    /\ enfiles = <<>>
    /\ UowInitial
    /\ lot = LotInitial
    /\ appel = AppelInitial
    /\ produit = ProduitInitial
    /\ appelP = AppelPInitial

DispatchHandle ==
    /\ nbCommandes < MaxHandles
    /\ \E message \in CommandesDispatch \cup EventsDispatch : Handle(message)

DispatchCommand ==
    \E type \in TypesCommand :
        HandleCommand(type, IssuesDispatch(COMMAND_HANDLERS(type)))

DispatchEvent == \E nom \in NomsEventHandlers : HandleEvent(nom, IssuesDispatch(nom))

NextDispatch ==
    \/ DispatchHandle
    \/ DispatchCommand
    \/ PopEvent
    \/ DispatchEvent
    \/ Retour

SpecDispatch == InitDispatch /\ [][NextDispatch]_vars

\* ------------------------------------------------------------------------
\* SpecCascade : handle sur le bus de test, a partir d'un depot deja peuple.
\* Le produit "A" a un ou deux lots en stock ; chaque lot detient des lignes du
\* sku dont la somme tient dans sa quantite (etats atteints par CreerLot,
\* Allouer, puis ModifierQuantiteLot a la hausse). Aucun event n'est en attente.
\* ------------------------------------------------------------------------
AllocationsPossibles(quantite) ==
    {S \in SUBSET {l \in Lignes : l.sku = "A"} : Somme(S) <= quantite}

LotsPeuples ==
    UNION {{[k \in 1..n |-> [Lot(RefsProduit[k], "A", f[k][1], None)
                               EXCEPT !.allocations = f[k][2]]]
              : f \in [1..n -> UNION {{<<q, S>> : S \in AllocationsPossibles(q)}
                                         : q \in QtesLot}]}
           : n \in 1..Len(RefsProduit)}

InitCascade ==
    /\ uow = "Fake"
    /\ \E lots \in LotsPeuples : depot = <<Produit("A", lots, 0)>>
    /\ seen = {1}
    /\ queue = <<>>
    /\ results = <<>>
    /\ pc = "idle"
    /\ courant = MessageNul
    /\ h = 0
    /\ issue = IssueAucune
    /\ envoyees = <<>>
    /\ vue = <<>>
    /\ journal = <<>>
    /\ debut = Debut(MessageNul, <<>>, <<>>, <<>>)
    /\ nbCommandes = MaxCommandes - MaxHandles
    /\ popped = <<>>
    /\ enfiles = <<>>
    /\ UowInitial
    /\ lot = LotInitial
    /\ appel = AppelInitial
    /\ produit = ProduitInitial
    /\ appelP = AppelPInitial

SpecCascade == InitCascade /\ [][Next]_vars

\* ------------------------------------------------------------------------
\* SpecProduitPeuple : methodes de Produit appelees sur un produit dont les lots
\* detiennent deja des lignes
\* ------------------------------------------------------------------------
InitProduitPeuple ==
    /\ \E lots \in LotsPeuples : produit = Produit("A", lots, 0)
    /\ appelP = AppelProduit("init", LigneNulle, "", 0, produit, "", "", 0)
    /\ lot = LotInitial
    /\ appel = AppelInitial
    /\ BusInitial("Fake")
    /\ UowInitial

SpecProduitPeuple == InitProduitPeuple /\ [][NextProduit]_vars

\* ------------------------------------------------------------------------
\* SpecTerminaison : SpecCascade, ou handle recoit aussi un Event comme premier
\* message, et ou la boucle de handle, une fois entree, continue de s'executer
\* (un seul fil : chaque tour de boucle possible finit par avoir lieu).
\* ------------------------------------------------------------------------
EntreesEvent ==
    {Alloue("o1", "A", 1, "b1"), Desalloue("o1", "A", 1), Desalloue("o2", "A", MaxQteLigne),
     RuptureDeStock("A")}

HandleEvenement == \E event \in EntreesEvent : Handle(event)

\* un tour de la boucle while self.queue, ou sa sortie
TourDeBoucle ==
    \/ CommandCreerLot
    \/ CommandAllouer
    \/ CommandModifierQuantiteLot
    \/ PopEvent
    \/ EventPublier
    \/ EventAjouterVue
    \/ EventReallouer
    \/ EventSupprimerVue
    \/ EventNotification
    \/ Retour

NextTerminaison ==
    \/ HandleCreerLot
    \/ HandleAllouer
    \/ HandleModifierQuantiteLot
    \/ HandleEvenement
    \/ TourDeBoucle

SpecTerminaison == InitCascade /\ [][NextTerminaison]_vars /\ WF_vars(TourDeBoucle)

\* ------------------------------------------------------------------------
\* SpecChoix : ModifierQuantiteLot sur le bus de test, a partir d'un depot ou
\* le lot b1 est plein de lignes de quantites quelconques (etat atteint par
\* CreerLot avec la somme des lignes, puis un Allouer par ligne) et ou le lot
\* b2 est vide. set.pop() choisit la ligne retiree.
\* ------------------------------------------------------------------------
LotsChoix ==
    {<<[Lot("b1", "A", Somme(S), None) EXCEPT !.allocations = S],
       Lot("b2", "A", q, None)>>
       : S \in (SUBSET {l \in Lignes : l.sku = "A"}) \ {{}}, q \in QtesLot}

InitChoix ==
    /\ uow = "Fake"
    /\ \E lots \in LotsChoix : depot = <<Produit("A", lots, 0)>>
    /\ seen = {1}
    /\ queue = <<>>
    /\ results = <<>>
    /\ pc = "idle"
    /\ courant = MessageNul
    /\ h = 0
    /\ issue = IssueAucune
    /\ envoyees = <<>>
    /\ vue = <<>>
    /\ journal = <<>>
    /\ debut = Debut(MessageNul, <<>>, <<>>, <<>>)
    /\ nbCommandes = MaxCommandes - MaxHandles
    /\ popped = <<>>
    /\ enfiles = <<>>
    /\ UowInitial
    /\ lot = LotInitial
    /\ appel = AppelInitial
    /\ produit = ProduitInitial
    /\ appelP = AppelPInitial

NextChoix ==
    \/ HandleModifierQuantiteLot
    \/ CommandModifierQuantiteLot
    \/ PopEvent
    \/ EventPublier
    \/ EventAjouterVue
    \/ EventReallouer
    \/ EventSupprimerVue
    \/ EventNotification
    \/ Retour

SpecChoix == InitChoix /\ [][NextChoix]_vars

\* ------------------------------------------------------------------------
\* SpecPanne : handle quand un with sort sans commit. Avec le
\* SqlAlchemyUnitOfWork et les EmailNotifications du bootstrap de production,
\* session.commit() peut lever (base injoignable, conflit) et
\* notifications.send peut lever (SMTP) ; le FakeUnitOfWork et les
\* FakeNotifications des tests ne levent jamais. Une quantite negative, que ni
\* la commande ni le handler ne refusent, fait lever set.pop() dans
\* Produit.modifier_quantite_lot apres l'emission des Desalloue. handle recoit
\* une Command ou un Event comme premier message.
\* ------------------------------------------------------------------------
\* uow.commit() leve : l'exception sort du with, __exit__ annule la session.
\* La base garde l'etat d0 du debut du with ; les events deja emis restent sur les
\* objets, que le repository de ce with garde dans seen ; un Produit ajoute dans
\* ce with n'existe pas en base (ajouter_lot ne lui fait emettre aucun event)
CommitEchoue(d0, v, r) ==
    [r EXCEPT !.depot = [i \in 1..Len(d0) |->
                           [d0[i] EXCEPT !.evenements =
                               EventsPerimes(@, r.depot[i].evenements)]],
              !.seen = @ \cap (1..Len(d0)),
              !.vue = v,
              !.ret = "",
              !.erreur = "OperationalError",
              !.commits = 0]

PannesCommit(u, d, v, issues) ==
    IF u = "SqlAlchemy"
    THEN {CommitEchoue(Recharger(u, d), v, r) : r \in {x \in issues : x.commits = 1}}
    ELSE {}

\* smtplib.SMTP(...) ou sendmail leve : rien n'est envoye
PanneNotification(event, d, sn, u, v, e) ==
    IF u = "SqlAlchemy" THEN {Issue(d, sn, v, e, "None", "SMTPException")} ELSE {}

EntreesPanne ==
    {CreerLot("b1", "A", 1, None), Allouer("o1", "A", 1), ModifierQuantiteLot("b1", 0),
     ModifierQuantiteLot("b1", -1),
     Alloue("o1", "A", 1, "b1"), Desalloue("o1", "A", 1), Desalloue("o1", "B", 1),
     RuptureDeStock("A")}

HandlePanne == \E message \in EntreesPanne : Handle(message)

IssuesCommand(cmd) ==
    CASE cmd.type = "CreerLot" -> handler_ajouter_lot(cmd, depot, seen, uow, vue, envoyees)
      [] cmd.type = "Allouer" -> handler_allouer(cmd, depot, seen, uow, vue, envoyees)
      [] cmd.type = "ModifierQuantiteLot" ->
            handler_modifier_quantite_lot(cmd, depot, seen, uow, vue, envoyees)

IssuesEvent(nom, event) ==
    CASE nom = "publier_evenement_allocation" ->
            handler_publier_evenement_allocation(event, depot, seen, uow, vue, envoyees)
      [] nom = "ajouter_allocation_vue" ->
            handler_ajouter_allocation_vue(event, depot, seen, uow, vue, envoyees)
      [] nom = "reallouer" -> handler_reallouer(event, depot, seen, uow, vue, envoyees)
      [] nom = "supprimer_allocation_vue" ->
            handler_supprimer_allocation_vue(event, depot, seen, uow, vue, envoyees)
      [] nom = "envoyer_notification_rupture_stock" ->
            handler_envoyer_notification_rupture_stock(event, depot, seen, uow, vue,
                                                       envoyees)
            \cup PanneNotification(event, depot, seen, uow, vue, envoyees)

PanneCommand ==
    \E type \in TypesCommand :
        HandleCommand(type,
            IF queue # <<>> /\ Head(queue).type = type
            THEN IssuesCommand(Head(queue))
                 \cup PannesCommit(uow, depot, vue, IssuesCommand(Head(queue)))
            ELSE {})

PanneEvent ==
    \E nom \in NomsEventHandlers :
        HandleEvent(nom,
            IF /\ pc = "event"
               /\ h <= Len(EVENT_HANDLERS(courant.type))
               /\ EVENT_HANDLERS(courant.type)[h] = nom
            THEN IssuesEvent(nom, courant)
                 \cup PannesCommit(uow, depot, vue, IssuesEvent(nom, courant))
            ELSE {})

NextPanne ==
    \/ HandlePanne
    \/ PanneCommand
    \/ PopEvent
    \/ PanneEvent
    \/ Retour

SpecPanne == Init /\ [][NextPanne]_vars

\* ------------------------------------------------------------------------
\* SpecCadre : handle avec des commands de deux skus, dont un
\* ModifierQuantiteLot de quantite negative (ni la command ni le handler ne la
\* refusent ; set.pop() leve KeyError quand le lot n'a plus de ligne).
\* ------------------------------------------------------------------------
EntreesCadre ==
    {CreerLot("b1", "A", 1, None), CreerLot("b2", "B", 1, None), Allouer("o1", "A", 1),
     Allouer("o1", "B", 1), ModifierQuantiteLot("b1", 0), ModifierQuantiteLot("b1", -1)}

HandleCadre == \E cmd \in EntreesCadre : Handle(cmd)

NextCadre ==
    \/ HandleCadre
    \/ CommandCreerLot
    \/ CommandAllouer
    \/ CommandModifierQuantiteLot
    \/ PopEvent
    \/ EventPublier
    \/ EventAjouterVue
    \/ EventReallouer
    \/ EventSupprimerVue
    \/ EventNotification
    \/ Retour

SpecCadre == Init /\ [][NextCadre]_vars

\* ------------------------------------------------------------------------
\* SpecSansHandler : SpecCadre, ou handle recoit aussi une Command dont le type
\* n'a pas d'entree dans COMMAND_HANDLERS (une sous-classe de Command que le
\* bootstrap ne route pas).
\* ------------------------------------------------------------------------
CommandeInconnue == [type |-> "CommandeInconnue"]

HandleInconnue == Handle(CommandeInconnue)

\* variante fautive : la command sans handler est ignoree, la boucle continue
CommandSansHandler_ignoree ==
    /\ pc = "boucle"
    /\ queue # <<>>
    /\ Head(queue).type \notin TypesEvent
    /\ COMMAND_HANDLERS(Head(queue).type) = ""
    /\ queue' = Tail(queue)
    /\ popped' = Append(popped, Head(queue))
    /\ results' = Append(results, "None")
    /\ UNCHANGED <<uow, depot, seen, pc, courant, h, issue, envoyees, vue, journal,
                   debut, nbCommandes, enfiles>>
    /\ UNCHANGED <<varsLot, varsProduit, varsUow>>

\* _handle_command : handler = self.command_handlers.get(type(command)) ;
\* if handler is None : raise ValueError, qui sort de handle
CommandSansHandler ==
    /\ pc = "boucle"
    /\ queue # <<>>
    /\ Head(queue).type \notin TypesEvent
    /\ COMMAND_HANDLERS(Head(queue).type) = ""
    /\ queue' = Tail(queue)
    /\ popped' = Append(popped, Head(queue))
    /\ pc' = "idle"
    /\ issue' = [type |-> "exception", erreur |-> "ValueError", results |-> <<>>]
    /\ UNCHANGED <<uow, depot, seen, results, courant, h, envoyees, vue, journal, debut,
                   nbCommandes, enfiles>>
    /\ UNCHANGED <<varsLot, varsProduit, varsUow>>

NextSansHandler ==
    \/ HandleCadre
    \/ HandleInconnue
    \/ CommandCreerLot
    \/ CommandAllouer
    \/ CommandModifierQuantiteLot
    \/ CommandSansHandler
    \/ PopEvent
    \/ EventPublier
    \/ EventAjouterVue
    \/ EventReallouer
    \/ EventSupprimerVue
    \/ EventNotification
    \/ Retour

SpecSansHandler == Init /\ [][NextSansHandler]_vars

\* ------------------------------------------------------------------------
\* SpecConcurrent : deux fils d'execution appellent handle sur le meme
\* MessageBus (le bus du module flask_app sert toutes les requetes).
\* self.queue et self.uow sont partages ; message, results et le rang du
\* handler sont des variables locales de chaque appel. Dans cette
\* specification pc, results, courant, h, issue, journal, debut, popped et
\* enfiles sont des fonctions du fil. Le test de la boucle, le pop, et chaque
\* handler suivi de sa recolte sont des pas atomiques ; un fil appelle handle
\* une fois.
\* ------------------------------------------------------------------------
Fils == {"f1", "f2"}

EntreesConcurrent ==
    {Allouer("o1", "A", 1), Allouer("o2", "A", 1), ModifierQuantiteLot("b1", 0)}

InitConcurrent ==
    /\ uow \in {"SqlAlchemy", "Fake"}
    /\ depot = <<Produit("A", <<Lot("b1", "A", MaxQteLot, None)>>, 0)>>
    /\ seen = {}
    /\ queue = <<>>
    /\ results = [f \in Fils |-> <<>>]
    /\ pc = [f \in Fils |-> "idle"]
    /\ courant = [f \in Fils |-> MessageNul]
    /\ h = [f \in Fils |-> 0]
    /\ issue = [f \in Fils |-> IssueAucune]
    /\ envoyees = <<>>
    /\ vue = <<>>
    /\ journal = [f \in Fils |-> <<>>]
    /\ debut = [f \in Fils |-> Debut(MessageNul, <<>>, <<>>, <<>>)]
    /\ nbCommandes = 0
    /\ popped = [f \in Fils |-> <<>>]
    /\ enfiles = [f \in Fils |-> <<>>]
    /\ UowInitial
    /\ lot = LotInitial
    /\ appel = AppelInitial
    /\ produit = ProduitInitial
    /\ appelP = AppelPInitial

\* handle(message) : self.queue = [message] ; results = []
FilHandle(f) ==
    /\ pc[f] = "idle"
    /\ \E message \in EntreesConcurrent :
        /\ queue' = <<message>>
        /\ debut' = [debut EXCEPT ![f] = Debut(message, depot, vue, envoyees)]
        /\ enfiles' = [enfiles EXCEPT ![f] = <<message>>]
    /\ results' = [results EXCEPT ![f] = <<>>]
    /\ pc' = [pc EXCEPT ![f] = "boucle"]
    /\ nbCommandes' = nbCommandes + 1
    /\ UNCHANGED <<uow, depot, seen, courant, h, issue, envoyees, vue, journal, popped>>
    /\ UNCHANGED <<varsLot, varsProduit, varsUow>>

\* while self.queue : le test ; queue vide, return results
FilTest(f) ==
    /\ pc[f] = "boucle"
    /\ IF queue = <<>>
       THEN /\ pc' = [pc EXCEPT ![f] = "fini"]
            /\ issue' = [issue EXCEPT ![f] = [type |-> "retour", erreur |-> "",
                                              results |-> results[f]]]
       ELSE /\ pc' = [pc EXCEPT ![f] = "pop"]
            /\ issue' = issue
    /\ UNCHANGED <<uow, depot, seen, queue, results, courant, h, envoyees, vue, journal,
                   debut, nbCommandes, popped, enfiles>>
    /\ UNCHANGED <<varsLot, varsProduit, varsUow>>

\* message = self.queue.pop(0) ; IndexError si l'autre fil a vide la queue
\* depuis le test
FilPop(f) ==
    /\ pc[f] = "pop"
    /\ IF queue = <<>>
       THEN /\ pc' = [pc EXCEPT ![f] = "fini"]
            /\ issue' = [issue EXCEPT ![f] = [type |-> "exception",
                                              erreur |-> "IndexError",
                                              results |-> <<>>]]
            /\ UNCHANGED <<queue, courant, h, popped>>
       ELSE /\ courant' = [courant EXCEPT ![f] = Head(queue)]
            /\ queue' = Tail(queue)
            /\ popped' = [popped EXCEPT ![f] = Append(@, Head(queue))]
            /\ h' = [h EXCEPT ![f] = 1]
            /\ pc' = [pc EXCEPT ![f] =
                        IF Head(queue).type \in TypesEvent THEN "event" ELSE "command"]
            /\ issue' = issue
    /\ UNCHANGED <<uow, depot, seen, results, envoyees, vue, journal, debut, nbCommandes,
                   enfiles>>
    /\ UNCHANGED <<varsLot, varsProduit, varsUow>>

\* _handle_command(message) puis results.append(result)
FilCommand(f) ==
    /\ pc[f] = "command"
    /\ \E r \in IssuesCommand(courant[f]) :
        /\ seen' = r.seen
        /\ vue' = r.vue
        /\ envoyees' = r.envoyees
        /\ IF r.erreur # ""
           THEN /\ depot' = r.depot
                /\ journal' = [journal EXCEPT ![f] = Append(@,
                       Invocation(COMMAND_HANDLERS(courant[f].type), courant[f], r.ret,
                                  r.erreur, r.commits, <<>>))]
                /\ UNCHANGED <<queue, enfiles, results>>
                /\ pc' = [pc EXCEPT ![f] = "fini"]
                /\ issue' = [issue EXCEPT ![f] = [type |-> "exception",
                                                  erreur |-> r.erreur,
                                                  results |-> <<>>]]
           ELSE \E c \in collect_new_events(r.depot, r.seen) :
                /\ depot' = c.depot
                /\ journal' = [journal EXCEPT ![f] = Append(@,
                       Invocation(COMMAND_HANDLERS(courant[f].type), courant[f], r.ret,
                                  r.erreur, r.commits, c.events))]
                /\ queue' = queue \o c.events
                /\ enfiles' = [enfiles EXCEPT ![f] = @ \o c.events]
                /\ results' = [results EXCEPT ![f] = Append(@, r.ret)]
                /\ pc' = [pc EXCEPT ![f] = "boucle"]
                /\ issue' = issue
    /\ UNCHANGED <<uow, courant, h, debut, nbCommandes, popped>>
    /\ UNCHANGED <<varsLot, varsProduit, varsUow>>

\* _handle_event(message), un tour de la boucle for : le handler de rang h[f]
FilEvent(f) ==
    /\ pc[f] = "event"
    /\ LET nom == EVENT_HANDLERS(courant[f].type)[h[f]] IN
       \E r \in {x \in IssuesEvent(nom, courant[f]) : x.erreur # "SMTPException"} :
        /\ seen' = r.seen
        /\ vue' = r.vue
        /\ envoyees' = r.envoyees
        /\ IF r.erreur # ""
           THEN /\ depot' = r.depot
                /\ journal' = [journal EXCEPT ![f] = Append(@,
                       Invocation(nom, courant[f], r.ret, r.erreur, r.commits, <<>>))]
                /\ UNCHANGED <<queue, enfiles>>
           ELSE \E c \in collect_new_events(r.depot, r.seen) :
                /\ depot' = c.depot
                /\ journal' = [journal EXCEPT ![f] = Append(@,
                       Invocation(nom, courant[f], r.ret, r.erreur, r.commits, c.events))]
                /\ queue' = queue \o c.events
                /\ enfiles' = [enfiles EXCEPT ![f] = @ \o c.events]
    /\ IF h[f] = Len(EVENT_HANDLERS(courant[f].type))
       THEN /\ pc' = [pc EXCEPT ![f] = "boucle"]
            /\ h' = [h EXCEPT ![f] = 0]
       ELSE /\ pc' = pc
            /\ h' = [h EXCEPT ![f] = @ + 1]
    /\ UNCHANGED <<uow, results, courant, issue, debut, nbCommandes, popped>>
    /\ UNCHANGED <<varsLot, varsProduit, varsUow>>

NextConcurrent ==
    \E f \in Fils :
        \/ FilHandle(f)
        \/ FilTest(f)
        \/ FilPop(f)
        \/ FilCommand(f)
        \/ FilEvent(f)

SpecConcurrent == InitConcurrent /\ [][NextConcurrent]_vars

\* ------------------------------------------------------------------------
\* SpecUow : un Unit of Work et son repository, operation par operation.
\* depot : les Produit en memoire du repository courant ; base : ce que la
\* session a committe. Apres la sortie d'un with, les objets restent dans
\* produits.seen avec leur liste d'events, que collect_new_events lit encore.
\* ------------------------------------------------------------------------
varsBusAutres == <<uow, queue, results, pc, courant, h, issue, envoyees, vue, journal,
                   debut, nbCommandes, popped, enfiles>>

\* ce que la base conserve d'un Produit : ses attributs mappes, pas ses events
Persistant(d) == [i \in 1..Len(d) |-> [d[i] EXCEPT !.evenements = <<>>]]

Operation(op, retour, avant, sn, events) ==
    [op |-> op, retour |-> retour, avant |-> avant, seen |-> sn, events |-> events]

\* AbstractRepository.add : _add(produit) puis seen.add(produit)
Repository_add(sn, i) == sn \cup {i}

\* variante fautive : get ne marque pas le produit rendu
Repository_get_sans_seen(d, sn, sku) ==
    IF Repo_get(d, sku) = {} THEN {[retour |-> 0, seen |-> sn]}
    ELSE {[retour |-> i, seen |-> sn] : i \in Repo_get(d, sku)}

\* AbstractRepository.get : le produit rendu par _get, marque vu s'il existe
\* (retour 0 : None)
Repository_get(d, sn, sku) ==
    IF Repo_get(d, sku) = {} THEN {[retour |-> 0, seen |-> sn]}
    ELSE {[retour |-> i, seen |-> sn \cup {i}] : i \in Repo_get(d, sku)}

\* AbstractRepository.get_par_ref_lot
Repository_get_par_ref_lot(d, sn, ref) ==
    IF Repo_get_par_ref_lot(d, ref) = {} THEN {[retour |-> 0, seen |-> sn]}
    ELSE {[retour |-> i, seen |-> sn \cup {i}] : i \in Repo_get_par_ref_lot(d, ref)}

\* variante fautive : une sortie normale committe ce qui ne l'a pas ete
Uow__exit__autocommit(u, b, d, mode) ==
    [base |-> IF u = "SqlAlchemy" /\ mode = "normal" THEN Persistant(d) ELSE b,
     rollbacks |-> 1]

\* __exit__(*args) : self.rollback(), que le corps ait leve ou non ; le rollback
\* de la session abandonne ce qui n'est pas committe et ne touche pas la base ;
\* le rollback du FakeUnitOfWork ne fait rien
Uow__exit__(u, b, d, mode) == [base |-> b, rollbacks |-> 1]

InitUow ==
    /\ \E u \in {"SqlAlchemy", "Fake"} : BusInitial(u)
    /\ UowInitial
    /\ lot = LotInitial
    /\ appel = AppelInitial
    /\ produit = ProduitInitial
    /\ appelP = AppelPInitial

\* with uow : __enter__ ; SqlAlchemyUnitOfWork ouvre une session et un repository
\* neufs (objets recharges depuis la base, seen vide)
UowEntrer ==
    /\ portee = "dehors"
    /\ hist.n < MaxOperations
    /\ portee' = "dedans"
    /\ seen' = Entrer(uow, seen)
    /\ depot' = IF uow = "SqlAlchemy" THEN base ELSE depot
    /\ hist' = [hist EXCEPT !.n = @ + 1, !.commits = 0, !.mode = "",
                            !.baseEntree = base, !.baseCommit = base,
                            !.attendus = Entrer(uow, @),
                            !.derniere = Operation("enter", 0, depot, seen, <<>>)]
    /\ UNCHANGED <<base, varsBusAutres>>
    /\ UNCHANGED <<varsLot, varsProduit>>

\* uow.produits.add(produit) : un Produit neuf d'un sku absent, ou un objet
\* deja present dans le repository
UowAdd ==
    /\ portee = "dedans"
    /\ hist.n < MaxOperations
    /\ \/ \E sku \in Skus, ref \in Refs :
            /\ Repo_get(depot, sku) = {}
            /\ depot' = Append(depot, Produit(sku, <<Lot(ref, sku, MaxQteLot, None)>>, 0))
            /\ seen' = Repository_add(seen, Len(depot) + 1)
            /\ hist' = [hist EXCEPT !.n = @ + 1, !.attendus = @ \cup {Len(depot) + 1},
                          !.derniere = Operation("add", Len(depot) + 1, depot, seen, <<>>)]
       \/ \E i \in 1..Len(depot) :
            /\ depot' = depot
            /\ seen' = Repository_add(seen, i)
            /\ hist' = [hist EXCEPT !.n = @ + 1, !.attendus = @ \cup {i},
                          !.derniere = Operation("add", i, depot, seen, <<>>)]
    /\ UNCHANGED <<base, portee, varsBusAutres>>
    /\ UNCHANGED <<varsLot, varsProduit>>

\* uow.produits.get(sku)
UowGet ==
    /\ portee = "dedans"
    /\ hist.n < MaxOperations
    /\ \E sku \in Skus : \E r \in Repository_get(depot, seen, sku) :
        /\ seen' = r.seen
        /\ hist' = [hist EXCEPT !.n = @ + 1,
                      !.attendus = IF r.retour = 0 THEN @ ELSE @ \cup {r.retour},
                      !.derniere = Operation("get", r.retour, depot, seen, <<>>)]
    /\ UNCHANGED <<depot, base, portee, varsBusAutres>>
    /\ UNCHANGED <<varsLot, varsProduit>>

\* uow.produits.get_par_ref_lot(ref)
UowGetParRefLot ==
    /\ portee = "dedans"
    /\ hist.n < MaxOperations
    /\ \E ref \in Refs : \E r \in Repository_get_par_ref_lot(depot, seen, ref) :
        /\ seen' = r.seen
        /\ hist' = [hist EXCEPT !.n = @ + 1,
                      !.attendus = IF r.retour = 0 THEN @ ELSE @ \cup {r.retour},
                      !.derniere = Operation("get_par_ref_lot", r.retour, depot, seen,
                                             <<>>)]
    /\ UNCHANGED <<depot, base, portee, varsBusAutres>>
    /\ UNCHANGED <<varsLot, varsProduit>>

\* le corps du with modifie un agregat obtenu du repository : produit.allouer
UowAllouer ==
    /\ portee = "dedans"
    /\ hist.n < MaxOperations
    /\ \E i \in seen, ligne \in Lignes :
        /\ ligne.sku = depot[i].sku
        /\ LET r == Produit_allouer(depot[i], ligne) IN
            /\ depot' = [depot EXCEPT ![i] = r.produit]
            /\ hist' = [hist EXCEPT !.n = @ + 1,
                          !.nbEmis = @ + Len(r.produit.evenements)
                                       - Len(depot[i].evenements),
                          !.derniere = Operation("allouer", i, depot, seen, <<>>)]
    /\ UNCHANGED <<seen, base, portee, varsBusAutres>>
    /\ UNCHANGED <<varsLot, varsProduit>>

\* uow.commit() : session.commit() ecrit les objets de la session dans la base ;
\* FakeUnitOfWork._commit ne fait que lever son drapeau committed
UowCommit ==
    /\ portee = "dedans"
    /\ hist.n < MaxOperations
    /\ base' = IF uow = "SqlAlchemy" THEN Persistant(depot) ELSE base
    /\ hist' = [hist EXCEPT !.n = @ + 1, !.commits = @ + 1, !.baseCommit = base',
                            !.derniere = Operation("commit", 0, depot, seen, <<>>)]
    /\ UNCHANGED <<depot, seen, portee, varsBusAutres>>
    /\ UNCHANGED <<varsLot, varsProduit>>

\* fin du with : __exit__, apres un corps termine ou qui a leve
UowSortir ==
    /\ portee = "dedans"
    /\ \E mode \in {"normal", "exception"} :
        LET r == Uow__exit__(uow, base, depot, mode) IN
        /\ base' = r.base
        /\ hist' = [hist EXCEPT !.sorties = @ + 1, !.rollbacks = @ + r.rollbacks,
                                !.mode = mode,
                                !.derniere = Operation("exit", 0, depot, seen, <<>>)]
    /\ portee' = "dehors"
    /\ UNCHANGED <<depot, seen, varsBusAutres>>
    /\ UNCHANGED <<varsLot, varsProduit>>

\* uow.collect_new_events(), consomme en entier (queue.extend) ; uow.produits
\* existe des le constructeur du FakeUnitOfWork, apres le premier __enter__ sinon
UowCollecter ==
    /\ hist.n < MaxOperations
    /\ uow = "Fake" \/ portee = "dedans" \/ hist.sorties > 0
    /\ \E c \in collect_new_events(depot, seen) :
        /\ depot' = c.depot
        /\ hist' = [hist EXCEPT !.n = @ + 1, !.nbRecoltes = @ + Len(c.events),
                                !.derniere = Operation("collect", 0, depot, seen,
                                                       c.events)]
    /\ UNCHANGED <<seen, base, portee, varsBusAutres>>
    /\ UNCHANGED <<varsLot, varsProduit>>

NextUow ==
    \/ UowEntrer
    \/ UowAdd
    \/ UowGet
    \/ UowGetParRefLot
    \/ UowAllouer
    \/ UowCommit
    \/ UowSortir
    \/ UowCollecter

SpecUow == InitUow /\ [][NextUow]_vars

\* ------------------------------------------------------------------------
\* Proprietes de Lot (SpecLot)
\* ------------------------------------------------------------------------
\* quantite disponible d'un lot, d'apres ses champs
Dispo(l) == l.quantite_achetee - Somme(l.allocations)

\* la ligne tient dans le lot : meme sku et quantite disponible suffisante
Tient(l, ligne) == l.sku = ligne.sku /\ Dispo(l) >= ligne.quantite

\* C4 (enonce d'origine) : pour tout lot b et toute ligne l de meme sku avec
\* l.quantite <= b.quantite_disponible, peut_allouer est vrai et apres
\* b.allouer(l) la quantite disponible a diminue d'exactement l.quantite.
C4_Original ==
    (appel.op = "allouer" /\ appel.ligne.sku = appel.avant.sku
        /\ appel.ligne.quantite <= Dispo(appel.avant))
    => /\ peut_allouer(appel.avant, appel.ligne)
       /\ Dispo(lot) = Dispo(appel.avant) - appel.ligne.quantite

\* C4 (amende) : meme enonce, pour une ligne qui n'est pas deja allouee au lot.
C4_AllouerDiminueDisponible ==
    (appel.op = "allouer" /\ appel.ligne.sku = appel.avant.sku
        /\ appel.ligne.quantite <= Dispo(appel.avant)
        /\ appel.ligne \notin appel.avant.allocations)
    => /\ peut_allouer(appel.avant, appel.ligne)
       /\ Dispo(lot) = Dispo(appel.avant) - appel.ligne.quantite

C4_Temoin ==
    /\ appel.op = "allouer"
    /\ appel.ligne.sku = appel.avant.sku
    /\ appel.ligne.quantite <= Dispo(appel.avant)
    /\ appel.ligne \notin appel.avant.allocations
    /\ appel.avant.allocations # {}

\* C5 : peut_allouer(ligne) est vrai exactement quand le sku de la ligne est celui
\* du lot et que la quantite disponible est >= la quantite de la ligne (egalite
\* comprise), sans changer l'etat ; allouer une ligne pour laquelle peut_allouer
\* est faux laisse les allocations inchangees et ne leve pas d'erreur.
C5_PeutAllouer ==
    /\ appel.op = "peut_allouer"
        => /\ appel.ok = Tient(appel.avant, appel.ligne)
           /\ lot = appel.avant
           /\ appel.erreur = ""
    /\ (appel.op = "allouer" /\ ~Tient(appel.avant, appel.ligne))
        => /\ lot = appel.avant
           /\ appel.erreur = ""

C5_Temoin ==
    /\ appel.op = "peut_allouer"
    /\ appel.ok
    /\ Dispo(appel.avant) = appel.ligne.quantite
    /\ appel.prec.op = "allouer"
    /\ ~Tient(appel.prec.avant, appel.prec.ligne)

\* C6 : Lot.allouer est idempotent : l'etat du lot apres allouer(l) ; allouer(l)
\* est son etat apres un seul allouer(l).
C6_AllouerIdempotent ==
    (appel.op = "allouer" /\ appel.prec.op = "allouer"
        /\ appel.prec.ligne = appel.ligne)
    => /\ lot = appel.avant
       /\ Dispo(lot) = Dispo(appel.avant)

C6_Temoin ==
    /\ appel.op = "allouer"
    /\ appel.prec.op = "allouer"
    /\ appel.prec.ligne = appel.ligne
    /\ appel.ligne \notin appel.prec.avant.allocations
    /\ appel.ligne \in lot.allocations
    /\ Dispo(lot) >= appel.ligne.quantite

\* C7 : desallouer(ligne) retire la ligne quand elle est allouee, de sorte que
\* allouer(l) puis desallouer(l), sur un lot ou l n'etait pas allouee, retablit
\* la quantite disponible ; desallouer une ligne non allouee laisse le lot
\* inchange et ne leve pas d'erreur.
C7_Desallouer ==
    /\ (appel.op = "desallouer" /\ appel.ligne \in appel.avant.allocations)
        => /\ lot = [appel.avant EXCEPT !.allocations = @ \ {appel.ligne}]
           /\ Dispo(lot) = Dispo(appel.avant) + appel.ligne.quantite
    /\ (appel.op = "desallouer" /\ appel.prec.op = "allouer"
            /\ appel.prec.ligne = appel.ligne
            /\ appel.ligne \notin appel.prec.avant.allocations)
        => Dispo(lot) = Dispo(appel.prec.avant)
    /\ (appel.op = "desallouer" /\ appel.ligne \notin appel.avant.allocations)
        => /\ lot = appel.avant
           /\ appel.erreur = ""

C7_Temoin ==
    /\ appel.op = "desallouer"
    /\ appel.prec.op = "allouer"
    /\ appel.prec.ligne = appel.ligne
    /\ appel.ligne \notin appel.prec.avant.allocations
    /\ appel.ligne \in appel.avant.allocations
    /\ lot.allocations # {}

\* ------------------------------------------------------------------------
\* Proprietes de Produit (SpecProduit)
\* ------------------------------------------------------------------------
\* ordre des lots : a passe avant b (sans eta avant date, puis eta croissante)
Precede(a, b) ==
    \/ a.eta = None /\ b.eta # None
    \/ a.eta # None /\ b.eta # None /\ a.eta[1] < b.eta[1]

\* indices des lots de p ou la ligne tient
Candidats(p, ligne) == {i \in 1..Len(p.lots) : Tient(p.lots[i], ligne)}

LotsInchanges(p, q) ==
    /\ Len(q.lots) = Len(p.lots)
    /\ \A i \in 1..Len(p.lots) : q.lots[i] = p.lots[i]

\* events ajoutes par le dernier appel
Ajoutes(p, q) == SubSeq(q.evenements, Len(p.evenements) + 1, Len(q.evenements))

\* C2 : Produit.allouer(ligne) alloue au minimum, pour l'ordre des lots, des lots
\* qui satisfont peut_allouer(ligne) : un lot sans eta passe avant tout lot date,
\* et entre lots dates celui d'eta la plus proche, quel que soit l'ordre de la
\* liste ; tout autre lot est inchange.
C2_AlloueAuMinimum ==
    (appelP.op = "allouer" /\ Candidats(appelP.avant, appelP.ligne) # {})
    => \E j \in Candidats(appelP.avant, appelP.ligne) :
        /\ \A i \in Candidats(appelP.avant, appelP.ligne) :
              ~Precede(appelP.avant.lots[i], appelP.avant.lots[j])
        /\ Len(produit.lots) = Len(appelP.avant.lots)
        /\ produit.lots[j] =
              [appelP.avant.lots[j] EXCEPT !.allocations = @ \cup {appelP.ligne}]
        /\ appelP.ret = appelP.avant.lots[j].reference
        /\ \A i \in 1..Len(produit.lots) :
              i # j => produit.lots[i] = appelP.avant.lots[i]

C2_Temoin ==
    /\ appelP.op = "allouer"
    /\ \E i, j \in Candidats(appelP.avant, appelP.ligne) :
          /\ i < j
          /\ Precede(appelP.avant.lots[j], appelP.avant.lots[i])
          /\ appelP.ligne \in produit.lots[j].allocations
          /\ appelP.ligne \notin appelP.avant.lots[j].allocations

C8_UnEventParAllocation ==
    appelP.op = "allouer"
    => /\ Len(produit.evenements) = Len(appelP.avant.evenements) + 1
       /\ SubSeq(produit.evenements, 1, Len(appelP.avant.evenements))
             = appelP.avant.evenements
       /\ LET e == produit.evenements[Len(produit.evenements)] IN
          IF Candidats(appelP.avant, appelP.ligne) # {}
          THEN /\ e = Alloue(appelP.ligne.id_commande, appelP.ligne.sku,
                             appelP.ligne.quantite, appelP.ret)
               /\ \E j \in 1..Len(produit.lots) :
                     /\ produit.lots[j].reference = e.ref_lot
                     /\ appelP.ligne \in produit.lots[j].allocations
          ELSE e = RuptureDeStock(appelP.ligne.sku)

C8_Temoin ==
    /\ appelP.op = "allouer"
    /\ appelP.ret = "b2"
    /\ Len(appelP.avant.evenements) > 0
    /\ produit.evenements[Len(produit.evenements)].type = "Alloue"
    /\ appelP.ligne \notin appelP.avant.lots[2].allocations

\* nombre d'events Alloue emis par le produit
NbAlloues(p) ==
    Cardinality({i \in 1..Len(p.evenements) : p.evenements[i].type = "Alloue"})

\* C9 : numero_version augmente d'exactement 1 a chaque Produit.allouer reussi,
\* de sorte qu'apres toute suite d'operations il vaut sa valeur initiale (0) plus
\* le nombre d'events Alloue emis ; une rupture de stock et modifier_quantite_lot
\* ne le changent jamais.
C9_NumeroVersion ==
    /\ produit.numero_version = NbAlloues(produit)
    /\ appelP.op = "allouer"
        => produit.numero_version = appelP.avant.numero_version
              + (IF Candidats(appelP.avant, appelP.ligne) # {} THEN 1 ELSE 0)
    /\ appelP.op = "modifier_quantite_lot"
        => produit.numero_version = appelP.avant.numero_version

C9_Temoin ==
    /\ appelP.op = "modifier_quantite_lot"
    /\ produit.numero_version = 1
    /\ Len(produit.evenements) = 2
    /\ produit.evenements[2].type = "Desalloue"

\* ------------------------------------------------------------------------
\* Proprietes du systeme (Spec)
\* ------------------------------------------------------------------------
\* C1 : apres toute suite de commandes CreerLot (quantite >= 0), Allouer
\* (quantite > 0) et ModifierQuantiteLot (quantite >= 0), chacune traitee
\* jusqu'au bout par MessageBus.handle, tout lot a quantite_disponible >= 0 :
\* la somme des quantites allouees ne depasse pas la quantite achetee.
C1_DisponibleJamaisNegatif ==
    pc = "idle"
    => \A i \in 1..Len(depot) : \A k \in 1..Len(depot[i].lots) :
          /\ Dispo(depot[i].lots[k]) >= 0
          /\ Somme(depot[i].lots[k].allocations) <= depot[i].lots[k].quantite_achetee

\* une reduction de quantite a desalloue une ligne, reallouee a un autre lot
C1_Temoin ==
    /\ pc = "idle"
    /\ issue.type = "retour"
    /\ debut.message.type = "ModifierQuantiteLot"
    /\ \E j \in 1..Len(journal) :
          /\ journal[j].handler = "reallouer"
          /\ \E i \in 1..Len(depot) : \E k \in 1..Len(depot[i].lots) :
                /\ depot[i].lots[k].reference # debut.message.ref
                /\ Dispo(depot[i].lots[k]) = 0
                /\ \E l \in depot[i].lots[k].allocations :
                      l.id_commande = journal[j].message.id_commande

\* la reference de la commande ne designe rien dans le depot
SkuSansProduit(d, sku) == \A i \in 1..Len(d) : d[i].sku # sku

RefSansLot(d, ref) ==
    \A i \in 1..Len(d) : \A k \in 1..Len(d[i].lots) : d[i].lots[k].reference # ref

\* C10 : une commande Allouer pour un sku sans Produit, et une commande
\* ModifierQuantiteLot pour une reference qu'aucun Produit ne contient, echouent
\* avec l'erreur de reference inconnue, qui atteint l'appelant de handle ; aucun
\* Produit, lot, allocation ou liste d'events n'est change, aucun event dispatche.
C10_ReferenceInconnue ==
    (/\ pc = "idle"
     /\ \/ /\ debut.message.type = "Allouer"
           /\ SkuSansProduit(debut.depot, debut.message.sku)
        \/ /\ debut.message.type = "ModifierQuantiteLot"
           /\ RefSansLot(debut.depot, debut.message.ref))
    => /\ issue.type = "exception"
       /\ issue.erreur = "SkuInconnu"
       /\ depot = debut.depot
       /\ vue = debut.vue
       /\ envoyees = debut.envoyees
       /\ queue = <<>>
       /\ Len(journal) = 1
       /\ journal[1].message = debut.message

\* sku inconnu alors que l'autre produit existe et detient une ligne
C10_Temoin ==
    /\ pc = "idle"
    /\ issue.type = "exception"
    /\ debut.message.type = "Allouer"
    /\ SkuSansProduit(debut.depot, debut.message.sku)
    /\ Len(depot) = 1
    /\ \E k \in 1..Len(depot[1].lots) : depot[1].lots[k].allocations # {}

\* ------------------------------------------------------------------------
\* Proprietes du MessageBus (Spec)
\* ------------------------------------------------------------------------
NomsCommandHandlers == {COMMAND_HANDLERS(t) : t \in TypesCommand}

EstEvent(m) == m.type \in TypesEvent

\* invocations attendues pour une suite d'events : pour chacun, les handlers de
\* son type dans l'ordre d'enregistrement
RECURSIVE Attendu(_)
Attendu(evts) ==
    IF evts = <<>> THEN <<>>
    ELSE [k \in 1..Len(EVENT_HANDLERS(Head(evts).type)) |->
            [handler |-> EVENT_HANDLERS(Head(evts).type)[k], message |-> Head(evts)]]
         \o Attendu(Tail(evts))

\* invocations de handlers d'event faites par l'appel en cours
InvocationsEvents ==
    LET EstHandlerEvent(e) == e.handler \notin NomsCommandHandlers
        je == SelectSeq(journal, EstHandlerEvent)
    IN [k \in 1..Len(je) |-> [handler |-> je[k].handler, message |-> je[k].message]]

\* C12 : pour chaque Event sorti de la queue, chaque handler enregistre pour son
\* type est invoque exactement une fois, dans l'ordre d'enregistrement, meme si
\* un handler precedent du meme event a leve ; l'exception d'un handler d'event
\* n'atteint jamais l'appelant de handle et les messages suivants de la queue
\* sont encore dispatches.
C12_HandlersEvent ==
    LET attendu == Attendu(SelectSeq(popped, EstEvent))
        restant == IF pc = "event"
                   THEN Len(EVENT_HANDLERS(courant.type)) - (h - 1) ELSE 0
    IN /\ InvocationsEvents = SubSeq(attendu, 1, Len(attendu) - restant)
       /\ (pc = "idle" /\ issue.type = "exception")
            => journal[Len(journal)].handler \in NomsCommandHandlers
       /\ (pc = "idle" /\ issue.type = "retour")
            => queue = <<>> /\ popped = enfiles

\* reallouer leve, supprimer_allocation_vue est invoque pour le meme event, puis
\* un message suivant est dispatche et handle rend la main normalement
C12_Temoin ==
    /\ pc = "idle"
    /\ issue.type = "retour"
    /\ \E k \in 1..Len(journal) :
        /\ k + 1 < Len(journal)
        /\ journal[k].handler = "reallouer"
        /\ journal[k].erreur # ""
        /\ journal[k + 1].handler = "supprimer_allocation_vue"
        /\ journal[k + 1].message = journal[k].message

\* valeurs rendues par les handlers de command de l'appel en cours, dans l'ordre
RetoursCommands ==
    LET EstHandlerCommand(e) == e.handler \in NomsCommandHandlers
        jc == SelectSeq(journal, EstHandlerCommand)
    IN [k \in 1..Len(jc) |-> jc[k].ret]

EstCommand(m) == m.type \in TypesCommand

\* C13 : handle rend la liste des resultats des handlers de command dans l'ordre
\* ou les Commands sont sorties de la queue, une entree par Command et aucune
\* par Event ; pour un Allouer passe a handle, la premiere entree est la
\* reference du lot auquel la ligne a ete allouee (vide en rupture de stock).
C13_Resultats ==
    (pc = "idle" /\ issue.type = "retour")
    => /\ issue.results = RetoursCommands
       /\ Len(issue.results) = Len(SelectSeq(popped, EstCommand))
       /\ debut.message.type = "Allouer"
            => LET ligne == LigneDeCommande(debut.message.id_commande,
                                           debut.message.sku, debut.message.quantite)
                   ref == issue.results[1]
               IN /\ (ref = "") <=> (\A i \in 1..Len(debut.depot) :
                                        \A k \in 1..Len(debut.depot[i].lots) :
                                          debut.depot[i].sku = ligne.sku
                                            => ~Tient(debut.depot[i].lots[k], ligne))
                  /\ ref = "" => /\ RuptureDeStock(ligne.sku) \in {enfiles[n] : n \in 1..Len(enfiles)}
                                 /\ \A i \in 1..Len(depot) :
                                        depot[i].lots = debut.depot[i].lots
                  /\ ref # "" => \E i \in 1..Len(depot) :
                                   \E k \in 1..Len(depot[i].lots) :
                                     /\ depot[i].sku = ligne.sku
                                     /\ depot[i].lots[k].reference = ref
                                     /\ ligne \in depot[i].lots[k].allocations

\* un Allouer rend la reference du second lot, des events ont ete dispatches
C13_Temoin ==
    /\ pc = "idle"
    /\ issue.type = "retour"
    /\ debut.message.type = "Allouer"
    /\ issue.results = <<"b2">>
    /\ Len(popped) > 1
    /\ \E i \in 1..Len(depot) : Len(depot[i].lots) = 2

RECURSIVE TotalAlloue(_)
TotalAlloue(lots) ==
    IF lots = <<>> THEN 0 ELSE Somme(Head(lots).allocations) + TotalAlloue(Tail(lots))

LignesAllouees(lots) == UNION {lots[k].allocations : k \in 1..Len(lots)}

Enfile(type) == \E n \in 1..Len(enfiles) : enfiles[n].type = type

\* C14 : quand ModifierQuantiteLot abaisse la quantite d'un lot sous sa quantite
\* allouee et qu'a chaque reallocation d'une ligne retiree un lot du produit
\* peut la prendre, le meme appel de handle realloue toutes les lignes retirees :
\* au retour de handle, la quantite allouee totale sur les lots du produit est
\* celle d'avant la command, et toute ligne allouee avant l'est a un lot.
C14_Reallocation ==
    (/\ pc = "idle"
     /\ issue.type = "retour"
     /\ debut.message.type = "ModifierQuantiteLot"
     /\ Enfile("Desalloue")
     /\ ~Enfile("RuptureDeStock"))
    => \A i \in 1..Len(depot) :
         /\ TotalAlloue(depot[i].lots) = TotalAlloue(debut.depot[i].lots)
         /\ LignesAllouees(debut.depot[i].lots) \subseteq LignesAllouees(depot[i].lots)

\* la ligne que porte un event Desalloue
LigneDe(event) == LigneDeCommande(event.id_commande, event.sku, event.quantite)

\* reallocations de l'appel en cours pour lesquelles aucun lot ne pouvait prendre
\* la ligne (l'appel de allouer fait par reallouer a rendu la reference vide)
ReallocationsEnRupture ==
    {k \in 1..Len(journal) : /\ journal[k].handler = "reallouer"
                             /\ journal[k].erreur = ""
                             /\ journal[k].ret = ""}

\* C15 : quand ModifierQuantiteLot retire une ligne qu'aucun lot du produit ne
\* peut prendre, handle rend la main sans lever, le lot finit avec une quantite
\* disponible egale a la nouvelle quantite moins les lignes qu'il detient encore
\* et >= 0, la ligne retiree n'est allouee nulle part, et un event
\* RuptureDeStock du sku est emis et dispatche dans le meme appel de handle.
C15_RetraitSansRepreneur ==
    (/\ pc = "idle"
     /\ debut.message.type = "ModifierQuantiteLot"
     /\ ReallocationsEnRupture # {})
    => /\ issue.type = "retour"
       /\ \A i \in 1..Len(depot) : \A n \in 1..Len(depot[i].lots) :
            Dispo(depot[i].lots[n]) >= 0
       /\ \E i \in Repo_get_par_ref_lot(debut.depot, debut.message.ref) :
            /\ depot[i].lots[TrouverLot(depot[i], debut.message.ref)].quantite_achetee
                 = debut.message.quantite
            /\ \A j \in 1..Len(depot) : j # i => depot[j] = debut.depot[j]
       /\ \A k \in ReallocationsEnRupture :
            /\ \A i \in 1..Len(depot) :
                 LigneDe(journal[k].message) \notin LignesAllouees(depot[i].lots)
            /\ \E k2 \in (k + 1)..Len(journal) :
                 /\ journal[k2].handler = "envoyer_notification_rupture_stock"
                 /\ journal[k2].message = RuptureDeStock(journal[k].message.sku)

\* skus des events RuptureDeStock emis par un Produit pendant l'appel en cours :
\* les appels de Produit.allouer (par allouer ou reallouer) qui ont rendu la
\* reference vide, dans l'ordre
RupturesEmises ==
    LET EnRupture(e) == /\ e.handler \in {"allouer", "reallouer"}
                        /\ e.erreur = ""
                        /\ e.ret = ""
        jr == SelectSeq(journal, EnRupture)
    IN [k \in 1..Len(jr) |-> jr[k].message.sku]

\* notifications envoyees pendant l'appel en cours
EnvoyeesPendant == SubSeq(envoyees, Len(debut.envoyees) + 1, Len(envoyees))

\* C16 : chaque event RuptureDeStock emis par un Produit pendant un appel de
\* handle mene, avant le retour de cet appel, a exactement un
\* notifications.send dont le message nomme le sku de l'event ; aucun send
\* n'a lieu quand aucun RuptureDeStock n'a ete emis.
C16_NotificationParRupture ==
    /\ Len(envoyees) >= Len(debut.envoyees)
    /\ SubSeq(envoyees, 1, Len(debut.envoyees)) = debut.envoyees
    /\ Len(EnvoyeesPendant) <= Len(RupturesEmises)
    /\ pc = "idle"
        => EnvoyeesPendant = [k \in 1..Len(RupturesEmises) |->
                                [destination |-> "stock@example.com",
                                 sku |-> RupturesEmises[k]]]

\* deux lignes retirees d'un lot, aucune ne peut etre reprise : deux envois
C16_Temoin ==
    /\ pc = "idle"
    /\ issue.type = "retour"
    /\ Len(RupturesEmises) = 2
    /\ Len(EnvoyeesPendant) = 2

\* C17 : dans un appel de handle les messages sont dispatches strictement dans
\* l'ordre ou ils sont entres dans la queue : les events recoltes apres le
\* retour d'un handler vont en fin de queue et ne sont dispatches qu'apres tous
\* les messages deja en queue, et aucun event n'est dispatche pendant qu'un
\* autre handler tourne.
C17_Fifo ==
    /\ enfiles = popped \o queue
    /\ pc = "event" => /\ popped # <<>>
                       /\ courant = popped[Len(popped)]
    /\ \A k \in 1..Len(journal) : journal[k].message \in {popped[n] : n \in 1..Len(popped)}
    /\ \A j, k \in 1..Len(journal) :
         (j < k /\ journal[j].message # journal[k].message)
         => \E m, n \in 1..Len(popped) :
              m < n /\ popped[m] = journal[j].message /\ popped[n] = journal[k].message

\* deux Desalloue en queue : l'event emis par la reallocation du premier est
\* dispatche apres le second
C17_Temoin ==
    /\ pc = "idle"
    /\ issue.type = "retour"
    /\ \E k \in 1..Len(popped) :
        /\ k + 2 <= Len(popped)
        /\ popped[k].type = "Desalloue"
        /\ popped[k + 1].type = "Desalloue"
        /\ popped[k + 2].type \in {"Alloue", "RuptureDeStock"}


\* ------------------------------------------------------------------------
\* C18 : sortir d'un with appelle toujours rollback, que commit ait ete appele
\* ou non et que le corps ait leve ou non ; apres la sortie, les changements
\* d'un with sans commit ne sont pas dans la base, et le rollback qui suit un
\* commit ne defait pas ce qui a ete committe.
\* ------------------------------------------------------------------------
C18_RollbackALaSortie ==
    /\ hist.rollbacks = hist.sorties
    /\ (uow = "SqlAlchemy" /\ portee = "dehors" /\ hist.sorties > 0) =>
        /\ base = hist.baseCommit
        /\ hist.commits = 0 => base = hist.baseEntree

\* un with qui a committe, puis modifie encore, puis est sorti : la base garde
\* le commit et pas la suite
C18_Temoin ==
    /\ uow = "SqlAlchemy"
    /\ hist.derniere.op = "exit"
    /\ hist.commits > 0
    /\ base # hist.baseEntree
    /\ Persistant(depot) # base

\* ------------------------------------------------------------------------
\* C19 : collect_new_events rend une fois exactement chaque event en attente
\* sur un agregat de seen, dans l'ordre ou l'agregat les a ajoutes ; la
\* sequence consommee, chaque agregat de seen a une liste d'events vide ; un
\* event n'est jamais rendu par deux collectes.
\* ------------------------------------------------------------------------
RECURSIVE NbEnAttente(_, _)
NbEnAttente(d, sn) ==
    IF sn = {} THEN 0
    ELSE LET i == CHOOSE x \in sn : TRUE IN
         Len(d[i].evenements) + NbEnAttente(d, sn \ {i})

DuSku(events, sku) == SelectSeq(events, LAMBDA e : e.sku = sku)

C19_CollecteUneFois ==
    /\ hist.nbRecoltes <= hist.nbEmis
    /\ hist.derniere.op = "collect" =>
        LET avant == hist.derniere.avant
            vus == hist.derniere.seen
            rendus == hist.derniere.events
        IN  /\ \A i \in vus : DuSku(rendus, avant[i].sku) = avant[i].evenements
            /\ Len(rendus) = NbEnAttente(avant, vus)
            /\ \A i \in vus : depot[i].evenements = <<>>
            /\ \A i \in (1..Len(depot)) \ vus : depot[i] = avant[i]

\* une collecte qui a rendu au moins deux events d'un meme agregat, apres une
\* collecte precedente
C19_Temoin ==
    /\ hist.derniere.op = "collect"
    /\ hist.nbRecoltes > Len(hist.derniere.events)
    /\ \E i \in hist.derniere.seen : Len(hist.derniere.avant[i].evenements) >= 2

\* ------------------------------------------------------------------------
\* C20 : apres toute suite d'operations du repository, seen contient
\* exactement les agregats passes a add ou rendus non nuls par get ou
\* get_par_ref_lot ; une recherche qui ne rend rien n'ajoute rien a seen.
\* ------------------------------------------------------------------------
C20_SeenExact ==
    /\ seen = hist.attendus
    /\ (hist.derniere.op \in {"get", "get_par_ref_lot"} /\ hist.derniere.retour = 0) =>
        seen = hist.derniere.seen

\* un agregat ajoute, un autre obtenu par get apres un nouveau with, et une
\* recherche qui n'a rien rendu
C20_Temoin ==
    /\ hist.derniere.op \in {"get", "get_par_ref_lot"}
    /\ hist.derniere.retour = 0
    /\ seen # {}

\* ------------------------------------------------------------------------
\* C21 : apres toute suite de commandes il y a au plus un Produit par sku ; le
\* premier CreerLot d'un sku cree le Produit et l'ajoute au repository, chaque
\* CreerLot suivant ajoute son lot a la fin de la liste du meme Produit ; chaque
\* CreerLot augmente d'un le nombre de lots de ce produit, et committe.
\* ------------------------------------------------------------------------
UnProduitParSku(d) == \A i, j \in 1..Len(d) : d[i].sku = d[j].sku => i = j

SansEvents(p) == [p EXCEPT !.evenements = <<>>]

C21_AjouterLot ==
    /\ UnProduitParSku(depot)
    /\ (Len(journal) = 1 /\ journal[1].handler = "ajouter_lot") =>
        LET cmd == journal[1].message
            avant == debut.depot
            I == Repo_get(avant, cmd.sku)
            nouveau == Lot(cmd.ref, cmd.sku, cmd.quantite, cmd.eta)
        IN  /\ journal[1].erreur = ""
            /\ journal[1].commits = 1
            /\ \A i \in 1..Len(avant) :
                 SansEvents(depot[i]) =
                     IF i \in I THEN SansEvents([avant[i] EXCEPT !.lots = Append(@, nouveau)])
                     ELSE SansEvents(avant[i])
            /\ IF I = {}
               THEN /\ Len(depot) = Len(avant) + 1
                    /\ depot[Len(depot)] = Produit(cmd.sku, <<nouveau>>, 0)
                    /\ Len(depot) \in seen
               ELSE /\ Len(depot) = Len(avant)
                    /\ I \subseteq seen

\* un CreerLot pour un sku qui a deja un Produit et un lot, a cote d'un autre
\* Produit
C21_Temoin ==
    /\ Len(journal) = 1
    /\ journal[1].handler = "ajouter_lot"
    /\ Len(depot) = 2
    /\ \E i \in Repo_get(debut.depot, journal[1].message.sku) :
         /\ Len(debut.depot[i].lots) >= 1
         /\ Len(depot[i].lots) = Len(debut.depot[i].lots) + 1

\* ------------------------------------------------------------------------
\* C22 : pour tout premier message et tout etat (quantites de lot >= 0,
\* quantites de ligne > 0), MessageBus.handle termine : la cascade
\* ModifierQuantiteLot -> Desalloue -> reallocation -> Alloue / RuptureDeStock
\* n'a pas de cycle ; apres un nombre fini de dispatches la queue est vide
\* et le bus est au repos.
\* ------------------------------------------------------------------------
C22_Terminaison == (pc # "idle") ~> (pc = "idle" /\ queue = <<>>)

\* handle a rendu la main apres une cascade complete : une ligne retiree,
\* reallouee, et l'event Alloue de la reallocation dispatche a son tour
C22_Temoin ==
    /\ pc = "idle"
    /\ issue.type = "retour"
    /\ debut.message.type = "ModifierQuantiteLot"
    /\ \E j, k \in 1..Len(journal) :
         /\ j < k
         /\ journal[j].handler = "reallouer"
         /\ journal[j].ret # ""
         /\ journal[k].handler = "publier_evenement_allocation"

\* ------------------------------------------------------------------------
\* C23 : Produit.modifier_quantite_lot(ref, quantite) ajoute exactement un
\* event Desalloue par ligne retiree, portant id_commande, sku et quantite de
\* la ligne ; il ne retire des lignes que tant que quantite_disponible < 0 et
\* s'arrete au premier point ou elle est >= 0 ; si quantite couvre la quantite
\* allouee du lot, aucune ligne n'est retiree et aucun event ajoute.
\* ------------------------------------------------------------------------
EmisParAppel ==
    SubSeq(produit.evenements, Len(appelP.avant.evenements) + 1, Len(produit.evenements))

RECURSIVE SommeEvents(_, _)
SommeEvents(evts, k) == IF k = 0 THEN 0 ELSE evts[k].quantite + SommeEvents(evts, k - 1)

C23_UnDesalloueParLigne ==
    (appelP.op = "modifier_quantite_lot" /\ appelP.erreur = "") =>
        LET avant == appelP.avant
            i == TrouverLot(avant, appelP.ref)
            retirees == avant.lots[i].allocations \ produit.lots[i].allocations
            emis == EmisParAppel
            dispo0 == appelP.quantite - quantite_allouee(avant.lots[i])
        IN  /\ produit.lots[i].allocations \subseteq avant.lots[i].allocations
            /\ produit.lots[i].quantite_achetee = appelP.quantite
            /\ \A j \in 1..Len(produit.lots) : j # i => produit.lots[j] = avant.lots[j]
            /\ Len(emis) = Cardinality(retirees)
            /\ \A l \in retirees :
                 Cardinality({k \in 1..Len(emis) :
                     emis[k] = Desalloue(l.id_commande, l.sku, l.quantite)}) = 1
            /\ \A k \in 0..(Len(emis) - 1) : dispo0 + SommeEvents(emis, k) < 0
            /\ dispo0 + SommeEvents(emis, Len(emis)) >= 0
            /\ dispo0 >= 0 => (retirees = {} /\ emis = <<>>)

\* un appel qui a retire une ligne et s'est arrete la : le lot en detient
\* encore, avec une quantite disponible revenue a 0
C23_Temoin ==
    /\ appelP.op = "modifier_quantite_lot"
    /\ appelP.erreur = ""
    /\ Len(EmisParAppel) = 1
    /\ \E i \in 1..Len(produit.lots) :
         /\ produit.lots[i].reference = appelP.ref
         /\ produit.lots[i].allocations # {}
         /\ quantite_disponible(produit.lots[i]) = 0

\* ------------------------------------------------------------------------
\* C24 : chaque fois que Produit.modifier_quantite_lot appelle
\* Lot.desallouer_une, l'ensemble des allocations du lot n'est pas vide : le
\* KeyError de set.pop() est inatteignable et la boucle termine, pour toute
\* quantite >= 0 et des lignes de quantite > 0.
\* ------------------------------------------------------------------------
C24_JamaisVide ==
    appelP.op = "modifier_quantite_lot" =>
        /\ appelP.erreur # "KeyError"
        /\ appelP.erreur = "" =>
             \E i \in 1..Len(produit.lots) :
                 /\ produit.lots[i].reference = appelP.ref
                 /\ quantite_disponible(produit.lots[i]) >= 0

\* la boucle a vide le lot : quantite 0, toutes les lignes retirees, et le
\* tour suivant n'a pas eu lieu
C24_Temoin ==
    /\ appelP.op = "modifier_quantite_lot"
    /\ appelP.erreur = ""
    /\ appelP.quantite = 0
    /\ Len(EmisParAppel) >= 2
    /\ \E i \in 1..Len(produit.lots) :
         produit.lots[i].reference = appelP.ref /\ produit.lots[i].allocations = {}

\* ------------------------------------------------------------------------
\* C25 : quand le handler modifier_quantite_lot appelle
\* Produit.modifier_quantite_lot(ref, quantite), le Produit rendu par
\* get_par_ref_lot contient un lot de reference ref : la recherche non gardee
\* next(...) de la methode n'echoue jamais (StopIteration) par le bus.
\* ------------------------------------------------------------------------
C25_LotTrouve ==
    \A k \in 1..Len(journal) :
        journal[k].handler = "modifier_quantite_lot" =>
            /\ journal[k].erreur # "StopIteration"
            /\ journal[k].erreur = "" =>
                 \E i \in 1..Len(debut.depot) :
                     TrouverLot(debut.depot[i], journal[k].message.ref) # 0

\* deux produits avec des lots, la reference demandee dans un seul : le
\* handler a atteint la methode de l'agregat, qui a trouve son lot
C25_Temoin ==
    /\ Len(journal) >= 1
    /\ journal[1].handler = "modifier_quantite_lot"
    /\ journal[1].erreur = ""
    /\ Len(debut.depot) = 2
    /\ \A i \in 1..2 : debut.depot[i].lots # <<>>
    /\ \E i \in 1..2 : TrouverLot(debut.depot[i], journal[1].message.ref) = 0

\* ------------------------------------------------------------------------
\* C28 : apres toute suite de commandes, une ligne est dans l'ensemble des
\* allocations d'au plus un lot de son Produit ; une commande Allouer pour une
\* ligne deja allouee ne change l'ensemble des allocations d'aucun lot.
\* ------------------------------------------------------------------------
Detenteurs(p, ligne) == {k \in 1..Len(p.lots) : ligne \in p.lots[k].allocations}

AllocationsDe(p) == [k \in 1..Len(p.lots) |-> p.lots[k].allocations]

C28_UnSeulLot ==
    /\ \A i \in 1..Len(depot) : \A ligne \in Lignes :
         Cardinality(Detenteurs(depot[i], ligne)) <= 1
    /\ (Len(journal) >= 1 /\ journal[1].handler = "allouer") =>
        LET cmd == journal[1].message
            ligne == LigneDeCommande(cmd.id_commande, cmd.sku, cmd.quantite)
        IN \A i \in Repo_get(debut.depot, cmd.sku) :
             Detenteurs(debut.depot[i], ligne) # {} =>
                 AllocationsDe(depot[i]) = AllocationsDe(debut.depot[i])

\* ------------------------------------------------------------------------
\* C30 : apres toute suite de commandes CreerLot, deux lots, du meme Produit ou
\* de Produits differents, n'ont jamais la meme reference ; ainsi
\* ModifierQuantiteLot(ref, quantite) designe exactement un lot et ne change
\* que la quantite de celui-la.
\* ------------------------------------------------------------------------
LotsDeReference(d, ref) ==
    {<<i, k>> \in (1..Len(d)) \X (1..(MaxCommandes + 1)) :
        k <= Len(d[i].lots) /\ d[i].lots[k].reference = ref}

C30_ReferencesUniques ==
    /\ \A ref \in Refs : Cardinality(LotsDeReference(depot, ref)) <= 1
    /\ (Len(journal) >= 1 /\ journal[1].handler = "modifier_quantite_lot"
          /\ journal[1].erreur = "") =>
        Cardinality(LotsDeReference(debut.depot, journal[1].message.ref)) = 1

\* ------------------------------------------------------------------------
\* C26 : apres chaque invocation d'un handler d'event, qu'il ait rendu la main
\* ou leve, le bus recolte les nouveaux events du Unit of Work et les ajoute a
\* la fin de la queue avant le handler ou le message suivant.
\* ------------------------------------------------------------------------
DernierEstHandlerEvent ==
    journal # <<>> /\ journal[Len(journal)].handler \in NomsEventHandlers

\* les n derniers messages entres dans la queue
DerniersEnfiles(n) == SubSeq(enfiles, Len(enfiles) - n + 1, Len(enfiles))

\* enonce d'origine : la recolte a lieu aussi apres un handler qui a leve
C26_Original ==
    DernierEstHandlerEvent => \A i \in seen : depot[i].evenements = <<>>

\* enonce amende : la recolte a lieu apres un handler qui a rendu la main ;
\* apres un handler qui a leve, rien n'est recolte ni ajoute a la queue
C26_RecolteApresRetour ==
    /\ \A k \in 1..Len(journal) :
         (journal[k].handler \in NomsEventHandlers /\ journal[k].erreur # "") =>
             journal[k].recoltes = <<>>
    /\ (DernierEstHandlerEvent /\ journal[Len(journal)].erreur = "") =>
         LET recoltes == journal[Len(journal)].recoltes IN
         /\ \A i \in seen : depot[i].evenements = <<>>
         /\ Len(recoltes) < Len(enfiles)
         /\ DerniersEnfiles(Len(recoltes)) = recoltes
         /\ enfiles = popped \o queue

\* reallouer a leve au commit en laissant un event sur un agregat de seen :
\* cet event n'est pas entre dans la queue, et le handler suivant va etre appele
C26_Temoin ==
    /\ pc = "event"
    /\ journal # <<>>
    /\ journal[Len(journal)].handler = "reallouer"
    /\ journal[Len(journal)].erreur = "OperationalError"
    /\ journal[Len(journal)].recoltes = <<>>
    /\ \E i \in seen : depot[i].evenements # <<>>
    /\ \E k \in 1..(Len(journal) - 1) :
         journal[k].erreur = "" /\ journal[k].recoltes # <<>>

\* ------------------------------------------------------------------------
\* C27 : le bus ne recolte des events qu'apres le commit du with qui les a
\* produits : aucun event ajoute a un agregat dans un with sorti sans commit
\* reussi (handler qui leve, commit qui echoue) n'entre dans la queue ni n'est
\* dispatche, dans le meme appel de handle ou dans un appel suivant.
\* ------------------------------------------------------------------------
C27_RecolteApresCommit ==
    /\ \A n \in 1..Len(enfiles) : ~EstPerime(enfiles[n])
    /\ \A k \in 1..Len(journal) : ~EstPerime(journal[k].message)

\* ------------------------------------------------------------------------
\* C29 : quand handle rend la main normalement, la queue est vide et chaque
\* agregat de seen a une liste d'events vide : aucun event produit pendant un
\* appel de handle ne reste a dispatcher par un appel suivant.
\* ------------------------------------------------------------------------
C29_RetourSansReste ==
    (pc = "idle" /\ issue.type = "retour") =>
        /\ queue = <<>>
        /\ \A i \in seen : depot[i].evenements = <<>>

\* ------------------------------------------------------------------------
\* C31 : vue de lecture apres une cascade de reallocation
\* ------------------------------------------------------------------------
\* references de lot des rangees de la vue pour la ligne (id_commande, sku)
RefsVue(v, id_commande, sku) ==
    {v[n].ref_lot : n \in {m \in 1..Len(v) : /\ v[m].id_commande = id_commande
                                            /\ v[m].sku = sku}}

\* invocations de reallouer de l'appel en cours qui ont rendu la main
Reallocations ==
    {k \in 1..Len(journal) : journal[k].handler = "reallouer" /\ journal[k].erreur = ""}

\* lots que les reallocations de l'appel en cours ont donnes aux lignes
\* (id_commande, sku) ; la vue identifie une ligne par ces deux colonnes
NouveauxLots(id_commande, sku) ==
    {journal[j].ret : j \in {k \in Reallocations :
                                /\ journal[k].message.id_commande = id_commande
                                /\ journal[k].message.sku = sku
                                /\ journal[k].ret # ""}}

\* C31 : dans une cascade de reallocation, le DELETE de la vue fait pour un
\* event Desalloue(id_commande, sku) est applique avant l'INSERT fait pour
\* l'event Alloue que produit la reallocation de la meme ligne ; au retour de
\* handle, la vue porte la rangee (id_commande, sku, nouveau lot) d'une ligne
\* reallouee et aucune rangee d'une ligne qui n'a pas pu etre reallouee.
C31_VueApresCascade ==
    uow = "SqlAlchemy" =>
      /\ \A j \in Reallocations : \A k \in 1..Len(journal) :
           (/\ journal[k].handler = "ajouter_allocation_vue"
            /\ \E n \in 1..Len(journal[j].recoltes) :
                 journal[j].recoltes[n] = journal[k].message)
           => \E s \in (j + 1)..(k - 1) :
                /\ journal[s].handler = "supprimer_allocation_vue"
                /\ journal[s].message = journal[j].message
                /\ journal[s].erreur = ""
      /\ (pc = "idle" /\ issue.type = "retour") =>
           \A j \in Reallocations :
             RefsVue(vue, journal[j].message.id_commande, journal[j].message.sku)
               = NouveauxLots(journal[j].message.id_commande, journal[j].message.sku)

\* une ligne que la vue donnait au lot b1 est retiree de b1 et reallouee a b2 :
\* au retour la vue la donne a b2
C31_Temoin ==
    /\ uow = "SqlAlchemy"
    /\ pc = "idle"
    /\ issue.type = "retour"
    /\ debut.message.type = "ModifierQuantiteLot"
    /\ \E j \in Reallocations :
         /\ journal[j].ret = "b2"
         /\ RefsVue(debut.vue, journal[j].message.id_commande, journal[j].message.sku)
              = {"b1"}
         /\ RefsVue(vue, journal[j].message.id_commande, journal[j].message.sku) = {"b2"}

ExAequo(a, b) == ~Precede(a, b) /\ ~Precede(b, a)

\* C33 : quand plusieurs lots qui peuvent prendre la ligne sont ex aequo dans
\* l'ordre des lots (tous sans eta, ou de meme eta), Produit.allouer choisit
\* celui qui vient le premier dans la liste des lots du Produit, c'est-a-dire
\* le premier cree.
C33_PremierDesExAequo ==
    appelP.op = "allouer" =>
      LET avant == appelP.avant
          C == Candidats(avant, appelP.ligne)
          premier == CHOOSE i \in C : \A j \in C : i <= j
      IN (/\ Cardinality(C) > 1
          /\ \A i, j \in C : ExAequo(avant.lots[i], avant.lots[j]))
         => /\ appelP.erreur = ""
            /\ appelP.ret = avant.lots[premier].reference
            /\ appelP.ligne \in produit.lots[premier].allocations
            /\ \A j \in C \ {premier} :
                 produit.lots[j].allocations = avant.lots[j].allocations

\* deux lots de meme eta peuvent prendre la ligne : elle va au premier de la liste
C33_Temoin ==
    /\ appelP.op = "allouer"
    /\ Len(appelP.avant.lots) = 2
    /\ Candidats(appelP.avant, appelP.ligne) = {1, 2}
    /\ appelP.avant.lots[1].eta # None
    /\ appelP.avant.lots[1].eta = appelP.avant.lots[2].eta
    /\ appelP.ret = "b1"
    /\ appelP.ligne \in produit.lots[1].allocations
    /\ appelP.ligne \notin produit.lots[2].allocations

\* ------------------------------------------------------------------------
\* C34 : le choix de la ligne retiree par desallouer_une
\* ------------------------------------------------------------------------
\* issue d'une cascade pour un choix donne : les lignes retirees sont reallouees
\* par Produit.allouer dans l'ordre de leurs events Desalloue ; rend la quantite
\* allouee totale et le nombre d'events RuptureDeStock
RECURSIVE IssueCascade(_, _, _)
IssueCascade(p, evts, n) ==
    IF evts = <<>> THEN [total |-> TotalAlloue(p.lots), ruptures |-> n]
    ELSE LET r == Produit_allouer(p, LigneDe(Head(evts)))
         IN IssueCascade(r.produit, Tail(evts), IF r.ret = "" THEN n + 1 ELSE n)

\* les issues de Produit.modifier_quantite_lot pour la command de l'appel en
\* cours, une par suite de choix de desallouer_une
ChoixPossibles(i) ==
    {r \in Produit_modifier_quantite_lot(debut.depot[i], debut.message.ref,
                                         debut.message.quantite) : r.erreur = ""}

\* events Desalloue que le choix r fait emettre au produit i, dans l'ordre
EmisParChoix(i, r) ==
    SubSeq(r.produit.evenements, Len(debut.depot[i].evenements) + 1,
           Len(r.produit.evenements))

EstDesalloue(m) == m.type = "Desalloue"

EstRupture(m) == m.type = "RuptureDeStock"

\* ce que l'appel en cours a produit sur le produit i
IssueObservee(i) ==
    [total |-> TotalAlloue(depot[i].lots),
     ruptures |-> Len(SelectSeq(enfiles, EstRupture))]

\* le produit i est celui que get_par_ref_lot a rendu au handler : les lots des
\* autres produits sont ceux du debut de l'appel
AutresInchanges(i) ==
    \A j \in 1..Len(depot) : j # i => depot[j].lots = debut.depot[j].lots

RetourDeModifier ==
    /\ pc = "idle"
    /\ issue.type = "retour"
    /\ debut.message.type = "ModifierQuantiteLot"

DesallouesDispatches == SelectSeq(enfiles, EstDesalloue)

\* la suite s finit par la suite t
FinitPar(s, t) ==
    /\ Len(t) <= Len(s)
    /\ SubSeq(s, Len(s) - Len(t) + 1, Len(s)) = t

C35_AppelsIsoles ==
    \A f \in Fils :
      pc[f] = "fini" =>
        /\ popped[f] = enfiles[f]
        /\ issue[f].erreur # "IndexError"
        /\ \A k \in 1..Len(journal[f]) :
             journal[f][k].handler \in NomsCommandHandlers
               => journal[f][k].message = debut[f].message
        /\ issue[f].type = "retour" => Len(issue[f].results) = 1

\* ------------------------------------------------------------------------
\* C36 : une command ne touche que le Produit de son sku
\* ------------------------------------------------------------------------
\* le produit de rang j est tel qu'au debut de l'appel en cours ; un objet
\* recharge par une session neuve est le meme Produit, sans les events que
\* portait l'objet de la session precedente
ProduitInchange(j) ==
    /\ j <= Len(depot)
    /\ \/ depot[j] = debut.depot[j]
       \/ depot[j] = Recharger(uow, debut.depot)[j]

\* C36 : une command pour un sku ne change que le Produit de ce sku : le
\* traitement de CreerLot, Allouer ou ModifierQuantiteLot, cascade comprise,
\* laisse inchanges la liste de lots, les allocations, le numero de version et
\* les events en attente de tout autre Produit.
C36_AutresProduitsInchanges ==
    /\ debut.message.type \in {"CreerLot", "Allouer"}
         => \A j \in 1..Len(debut.depot) :
              debut.depot[j].sku # debut.message.sku => ProduitInchange(j)
    /\ debut.message.type = "ModifierQuantiteLot"
         => \/ \A j \in 1..Len(debut.depot) : ProduitInchange(j)
            \/ \E i \in Repo_get_par_ref_lot(debut.depot, debut.message.ref) :
                 \A j \in 1..Len(debut.depot) : j # i => ProduitInchange(j)

\* ------------------------------------------------------------------------
\* C37 : Command sans handler enregistre
\* ------------------------------------------------------------------------
\* C37 : une Command dont le type concret n'a pas de handler enregistre fait
\* echouer handle avec l'erreur "aucun handler" avant qu'un handler ne
\* s'execute : aucun agregat n'est change, aucun event n'est recolte et aucun
\* resultat n'est rendu pour elle.
C37_SansHandler ==
    (/\ debut.message.type \notin TypesEvent
     /\ COMMAND_HANDLERS(debut.message.type) = ""
     /\ debut.message # MessageNul)
    => /\ pc \in {"boucle", "idle"}
       /\ journal = <<>>
       /\ results = <<>>
       /\ depot = debut.depot
       /\ vue = debut.vue
       /\ envoyees = debut.envoyees
       /\ enfiles = <<debut.message>>
       /\ pc = "idle" => /\ issue.type = "exception"
                         /\ issue.erreur = "ValueError"
                         /\ issue.results = <<>>
                         /\ queue = <<>>

\* handle a echoue sur la command sans handler alors qu'un agregat de seen
\* portait un event en attente : il le porte encore
C37_Temoin ==
    /\ pc = "idle"
    /\ debut.message = CommandeInconnue
    /\ issue.erreur = "ValueError"
    /\ \E i \in seen : depot[i].evenements # <<>>

====
